---- MODULE Spec2Model ----
(***************************************************************************)
(* LeetCode-Enhanced-Editor: the background service worker (two versions:  *)
(* src/background.js, "bg", and src/unnamed/part_002, "p2"), the content   *)
(* script (three versions: src/content_scripts/leetcode_injector.js lines  *)
(* 1-454, "inj1", lines 455-814, "inj2", and src/unnamed/part_000, "p0"),  *)
(* the page's MAIN world (flags, editor instances, debounce timers), the   *)
(* tabs and chrome.storage.local.                                          *)
(*                                                                         *)
(* Text is a sequence of tokens (<<>> is both the empty string and a       *)
(* missing value where the code only tests truthiness); editor contents    *)
(* are TLA+ strings, with Undefined for JavaScript's undefined.            *)
(***************************************************************************)
EXTENDS Integers, Sequences, FiniteSets, TLC

\* ------------------------------------------------------------- bounds
MaxRequests == 2    \* injectAndCreateMonaco messages received in one run
MaxEdits    == 2    \* content changes made by the user in one run
MaxNavs     == 1    \* navigations (location changes, page loads) in one run
MaxPrepares == 2    \* further findEditorContainerAndPrepare calls in one document
MaxSaves    == 3    \* saveCodeForTab messages sent to the background directly in one run

\* ------------------------------------------------- program constants
MAX_POLLING_ATTEMPTS    == 30
MAX_POLLING_ATTEMPTS_P2 == 35
MAX_INIT_ATTEMPTS       == 15
MAX_INIT_ATTEMPTS_INJ2  == 20

BgImpls == {"bg", "p2"}
CsImpls == {"inj1", "inj2", "p0"}
Tabs    == {1, 2}

Null      == <<>>
Undefined == "<undefined>"

MaxPollingAttempts(impl) ==
  IF impl = "bg" THEN MAX_POLLING_ATTEMPTS ELSE MAX_POLLING_ATTEMPTS_P2

\* One ceiling for every content script (a faulty variant of MaxInitAttempts).
MaxInitAttemptsSame(cs) == MAX_INIT_ATTEMPTS

MaxInitAttempts(cs) ==
  IF cs = "inj2" THEN MAX_INIT_ATTEMPTS_INJ2 ELSE MAX_INIT_ATTEMPTS

EDITOR_CONTAINER_ID == <<"monaco-editor-container">>
STORAGE_KEY_PREFIX  == <<"leetcodeCode-">>

\* --------------------------------------------------------------- text
\* String.prototype.includes: sub occurs in s as a contiguous run.
Includes(s, sub) ==
  \E i \in 0..(Len(s) - Len(sub)) :
    \A j \in 1..Len(sub) : s[i + j] = sub[j]

\* Index of the first occurrence of token tok in s, 0 when there is none.
IndexOf(s, tok) ==
  IF \E i \in 1..Len(s) : s[i] = tok
  THEN CHOOSE i \in 1..Len(s) : s[i] = tok /\ \A j \in 1..(i - 1) : s[j] # tok
  ELSE 0

Truthy(s) == s # Null

\* a || b on text
OrElse(a, b) == IF Truthy(a) THEN a ELSE b

\* --------------------------------------------------- sample inputs
TwoSum   == <<"two-sum">>
TwoSumII == <<"two-sum", "-ii">>
ThreeSum == <<"3sum">>
Slugs    == {TwoSum, TwoSumII, ThreeSum}

ProblemUrl(slug) == <<"https://", "leetcode.com", "/problems/">> \o slug \o <<"/", "description/">>
ProblemSetUrl    == <<"https://", "leetcode.com", "/problemset/">>
Urls             == {ProblemUrl(s) : s \in Slugs} \cup {ProblemSetUrl}

Codes == {"", "print(1)", "x = 2"}

\* What the language selector shows: Null when the element is missing.
LangTexts == {<<"Python3">>, <<"Brainfuck">>, Null}

\* reading the selector throws
ReadThrows == <<"<throws>">>

\* More of what the selector may show: names of the table in the page's
\* spelling, names the table lacks, blanks.
SelectorTexts ==
  LangTexts \cup { <<" C++ ">>, <<"Java">>, <<"Erlang">>, <<"Constructor">>, <<"__proto__">>,
                   <<"   ">>, ReadThrows }

\* window.lcMonaco as the sync callback finds it.
LcShapes == {"noAccessor", "noEditors", "noMethod", "model", "instance", "throws"}

\* codeSnippets embedded in the page (Null: none found).
SnippetSets ==
  { <<>>,
    << [langSlug |-> "python3", code |-> "class Solution: pass"] >>,
    << [langSlug |-> "java", code |-> "class Solution {}"] >>,
    << [langSlug |-> "java", code |-> "class Solution {}"],
       [langSlug |-> "python3", code |-> "class Solution: pass"] >> }

\* ---------------------------------------------------------- variables
VARIABLES
  impl,            \* which background version runs
  cs,              \* which content-script version runs
  tabSlugs,        \* background: tab -> problem slug (Null: no entry)
  req,             \* background: the injectAndCreateMonaco requests received
  nreq,            \* number of requests received
  tabOpen,         \* browser: the tab exists
  tabUrl,          \* browser: the tab's location
  removedPending,  \* browser: tabs.onRemoved not yet delivered
  updQ,            \* browser: tabs.onUpdated events not yet delivered
  navs,            \* navigations so far
  page,            \* MAIN world and DOM of the tab's current document
  inst,            \* editor instances created by monaco.editor.create
  lis,             \* onDidChangeModelContent listeners with their debounce timers
  edits,           \* content changes so far
  csPc,            \* content script: position
  initAttempts,    \* content script: interval ticks so far
  csRead,          \* content script: the storage read in flight
  csInit,          \* content script: the initialization interval of the page load
  saveMsgs,        \* saveCodeForTab messages on their way to the background
  writes,          \* chrome.storage.local.set calls in flight
  storage,         \* chrome.storage.local
  hist             \* history: what has happened, for stating the properties

cfgVars  == <<impl, cs>>
bgVars   == <<tabSlugs, req, nreq>>
tabVars  == <<tabOpen, tabUrl, removedPending, updQ, navs>>
pageVars == <<page, inst, lis, edits>>
csVars   == <<csPc, initAttempts, csRead, csInit>>
stVars   == <<saveMsgs, writes, storage>>
vars     == <<impl, cs, tabSlugs, req, nreq, tabOpen, tabUrl, removedPending, updQ,
              navs, page, inst, lis, edits, csPc, initAttempts, csRead, csInit, saveMsgs,
              writes, storage, hist>>

ReqIds == 1..MaxRequests

\* -------------------------------------------------------------- keys
\* One key for every problem (a faulty variant of StorageKey).
StorageKeyShared(slug) == STORAGE_KEY_PREFIX \o TwoSum

\* `leetcodeCode-${slug}`
StorageKey(slug) == STORAGE_KEY_PREFIX \o slug

\* `leetcodeCode-${problemSlug}-${language}`
StorageKeyLang(slug, language) == STORAGE_KEY_PREFIX \o slug \o <<"-", language>>

\* The key initializeEditor reads.
InitStorageKey(c, slug, language) ==
  IF c = "inj2" THEN StorageKeyLang(slug, language) ELSE StorageKey(slug)

\* ------------------------------------------------------ the document
\* A freshly loaded document: no flag is set, nothing is injected.
FreshPage(shape, snippets, langText, hasEditor) ==
  [ loader       |-> FALSE,        \* loader.js was injected
    require      |-> FALSE,        \* typeof window.require === 'function'
    loading      |-> "none",       \* the require(['vs/editor/editor.main']) call
    monaco       |-> FALSE,        \* window.monaco.editor is defined
    injectErr    |-> Null,         \* window.monacoInjectError
    syncErr      |-> Null,         \* window.monacoSyncError
    createStatus |-> "undefined",  \* window.monacoCreateStatus
    syncSetup    |-> "undefined",  \* window.monacoSyncSetup
    syncStatus   |-> "undefined",  \* window.monacoSyncStatus
    cur          |-> 0,            \* window.leetCodeMonacoInstance (0: not set)
    lcShape      |-> shape,        \* window.lcMonaco
    lcText       |-> "",           \* the original editor's content
    snippets     |-> snippets,     \* page-embedded codeSnippets
    langText     |-> langText,     \* text of the language selector
    editorEl     |-> hasEditor,    \* the '#editor' element exists
    parent       |-> TRUE,         \* '#editor' has a parentElement
    hidden       |-> FALSE,        \* '#editor' is hidden
    container    |-> FALSE,        \* '#monaco-editor-container' exists
    containers   |-> 0,            \* elements with the id 'monaco-editor-container'
    prepares     |-> 0,            \* findEditorContainerAndPrepare calls so far (read by no handler)
    shown        |-> Null,         \* error text shown in the container
    doc          |-> 0 ]           \* which document of the run this is (read by no handler)

NoReq ==
  [ tab |-> 0, pc |-> "free", poll |-> 0, sub |-> "-", attempts |-> 0,
    hasOpts |-> FALSE, slug |-> Null, containerId |-> Null, code |-> Undefined,
    statusSeen |-> "undefined", err |-> Null, ek |-> "none",
    resp |-> 0, respOk |-> FALSE,
    evals |-> 0, scripts |-> 0, waits |-> 0, lastCheck |-> FALSE,
    probeSeen |-> Null, flagSeen |-> Null, flagRead |-> Null, closedAt |-> "-",
    noContainer |-> Null,    \* the message the creation script of the request recorded
                             \* when it found no container (read by no handler)
    createdIn |-> 0 ]        \* the document that script ran in (read by no handler)

NoInst == [ tab |-> 0, alive |-> FALSE, text |-> "" ]
NoLis  == [ inst |-> 0, timer |-> FALSE, armed |-> 0 ]
NoInit == [ running |-> TRUE,   \* the interval set by setInterval has not been cleared
            inits |-> 0,        \* calls of initializeEditor in this page load
            sent |-> 0 ]        \* injectAndCreateMonaco messages sent in this page load
                                \* (both read by no handler)
NoRead == [ key |-> Null, slug |-> Null, language |-> "", containerId |-> Null,
            request |-> 0 ]

NoFire == [ n |-> 0, tab |-> 0, text |-> "", dispatched |-> FALSE, code |-> Undefined,
            shape |-> "-", lcBefore |-> "", lcAfter |-> "", methods |-> <<>>,
            errAfter |-> Null, status |-> "undefined" ]
NoInitRec == [ n |-> 0, slug |-> Null, language |-> "", readOk |-> FALSE,
               initialCode |-> Undefined, saved |-> Undefined, stored |-> Undefined,
               snippets |-> <<>>, request |-> 0 ]
NoSave == [ n |-> 0, tab |-> 0, slug |-> Null, code |-> Undefined, wrote |-> FALSE,
            resp |-> 0, ok |-> FALSE, err |-> Null, backendOk |-> FALSE,
            stored |-> Undefined ]
NoBurst == [ changes |-> 0, fires |-> 0, last |-> "", used |-> Undefined ]
NoEvent == [ n |-> 0, tab |-> 0, hasDetail |-> FALSE, code |-> Undefined ]
NoNav  == [ n |-> 0, had |-> Null, status |-> "-", loc |-> Null, after |-> Null ]

\* History variables: they record what happened and are read by no handler.
NoHist ==
  [ lastFire  |-> NoFire,      \* the last debounced callback that ran
    lastInit  |-> NoInitRec,   \* the last initial-content decision of initializeEditor
    lastSaved |-> [s \in Slugs |-> Undefined],  \* code of the last successful save per slug
    lastNav   |-> [t \in Tabs |-> NoNav],       \* the last tabs.onUpdated event handled
    injected  |-> [t \in Tabs |-> Null],        \* the problem whose injection succeeded in
                                                \* the tab, with no onRemoved event and no
                                                \* completed load of another location since
    nsaves    |-> 0,           \* saveCodeForTab requests handled so far
    nresp     |-> 0,           \* responses sent to saveCodeForTab requests so far
    lastSave  |-> NoSave,      \* the saveCodeForTab request answered last
    lastProcessed |-> [s \in Slugs |-> Undefined],  \* code of the request handled last, per slug
    lastFailed    |-> [s \in Slugs |-> FALSE],      \* the write completed last failed, per slug
    savers        |-> [s \in Slugs |-> {}],         \* tabs whose saves were taken, per slug
    lastEvent     |-> NoEvent,  \* the last '__monaco_save_code__' event a page script
                                \* other than the debounced callback dispatched
    burst         |-> [l \in ReqIds |-> NoBurst] ]  \* per change listener: the changes since
                                                    \* its timer was last idle, the callback
                                                    \* runs since, the text of the last change
                                                    \* and the text the last run read

AllKeys ==
  {StorageKey(s) : s \in Slugs}
    \cup {StorageKeyLang(s, l) : s \in Slugs, l \in {"python", "plaintext"}}

Init ==
  /\ impl \in BgImpls
  /\ cs \in CsImpls
  /\ tabSlugs = [t \in Tabs |-> Null]
  /\ req = [r \in ReqIds |-> NoReq]
  /\ nreq = 0
  /\ tabOpen = [t \in Tabs |-> t = 1]
  /\ tabUrl \in [Tabs -> {ProblemUrl(TwoSum)}]
  /\ removedPending = [t \in Tabs |-> FALSE]
  /\ updQ = [t \in Tabs |-> <<>>]
  /\ navs = 0
  /\ \E shape \in LcShapes, sn \in SnippetSets, lt \in LangTexts, hasEditor \in BOOLEAN :
       page = [t \in Tabs |-> FreshPage(shape, sn, lt, hasEditor)]
  /\ inst = [r \in ReqIds |-> NoInst]
  /\ lis = [r \in ReqIds |-> NoLis]
  /\ edits = 0
  /\ csPc = [t \in Tabs |-> "polling"]
  /\ initAttempts = [t \in Tabs |-> 0]
  /\ csRead = [t \in Tabs |-> NoRead]
  /\ csInit = [t \in Tabs |-> NoInit]
  /\ saveMsgs = <<>>
  /\ writes = <<>>
  /\ storage = [k \in AllKeys |-> Undefined]
  /\ hist = NoHist

\* ------------------------------------------------- background: helpers
TabStr(t) == ToString(t)

\* The description pollForCondition is called with at steps 2, 4 and 6.
PollDescription(n) ==
  CASE n = 1 -> "window.require definition"
    [] n = 2 -> "window.monaco.editor definition after require"
    [] OTHER -> "editor creation status (window.monacoCreateStatus)"

\* The predicate pollForCondition evaluates in the page at steps 2, 4 and 6.
CheckFunc(n, pg) ==
  CASE n = 1 -> pg.require
    [] n = 2 -> pg.monaco
    [] OTHER -> pg.createStatus = "success" \/ pg.createStatus = "error"

\* A probe that never reports a flag (a faulty variant of ErrorProbe).
ErrorProbeBlind(i, pg) == Null

\* The error probe of one polling attempt: what the script returns.
\* bg:  window.monacoInjectError || window.monacoSyncError
\* p2:  ... || (window.monacoCreateStatus === 'error'), read as a truth value
ErrorProbe(i, pg) ==
  IF i = "bg"
  THEN OrElse(pg.injectErr, pg.syncErr)
  ELSE IF Truthy(OrElse(pg.injectErr, pg.syncErr)) THEN OrElse(pg.injectErr, pg.syncErr)
       ELSE IF pg.createStatus = "error" THEN <<"true">> ELSE Null

\* p2 only: the message read by a further script once the probe was truthy.
SpecificError(pg) ==
  OrElse(OrElse(pg.injectErr, pg.syncErr), <<"Creation status indicated error">>)

PageSignaledError(m) == <<"Page signaled error: ">> \o m

\* A loop that runs one attempt too many (a faulty variant of PollLoopContinues).
PollLoopContinuesOneMore(i, attempts) == attempts <= MaxPollingAttempts(i)

\* while (attempts < MAX_POLLING_ATTEMPTS)
PollLoopContinues(i, attempts) == attempts < MaxPollingAttempts(i)

TimeoutError(i, n, t) ==
  IF i = "bg"
  THEN <<"Timeout waiting for ", PollDescription(n), " in tab ", TabStr(t)>>
  ELSE <<"Timeout waiting for ", PollDescription(n)>>

\* thrown by pollForCondition when chrome.tabs.get rejects
TabClosedPollingError(i, n, t) ==
  IF i = "bg"
  THEN <<"Tab ", TabStr(t), " closed during polling for ", PollDescription(n), ".">>
  ELSE <<"Tab ", TabStr(t), " closed during polling.">>

\* chrome's own rejection for a tab that is gone
NoTabError(t) == <<"No tab with id: ", TabStr(t)>>

\* what executeInMainWorld throws when the tab is gone
ExecError(i, t) ==
  IF i = "bg"
  THEN <<"Tab ", TabStr(t), " closed or inaccessible during script execution.">>
  ELSE NoTabError(t)

ScriptThrewError == <<"Uncaught error in injected function">>

\* A deletion that empties the registry (a faulty variant of RegistryDelete).
RegistryDeleteAll(reg, t) == [u \in DOMAIN reg |-> Null]

\* delete tabSlugs[tabId]
RegistryDelete(reg, t) == [reg EXCEPT ![t] = Null]

\* if (problemSlug) tabSlugs[tabId] = problemSlug; else delete tabSlugs[tabId];
RegistryAssociate(reg, t, slug) ==
  IF Truthy(slug) THEN [reg EXCEPT ![t] = slug] ELSE RegistryDelete(reg, t)

\* A catch block that leaves the registry alone (a faulty variant of
\* CatchCleanup).
CatchCleanupKeepsEntry(reg, t) == reg

\* catch (error) { delete tabSlugs[tabId]; ...
CatchCleanup(reg, t) == RegistryDelete(reg, t)

StartPoll(rec, n) ==
  [rec EXCEPT !.pc = "poll", !.poll = n, !.sub = "get", !.attempts = 0,
              !.evals = 0, !.scripts = 0, !.waits = 0, !.lastCheck = FALSE,
              !.probeSeen = Null, !.flagSeen = Null, !.flagRead = Null,
              !.closedAt = "-"]

\* pollForCondition has returned or thrown and the orchestration has gone on: its
\* locals are gone.
AfterPoll(rec) ==
  [rec EXCEPT !.poll = 0, !.sub = "-", !.attempts = 0, !.evals = 0, !.scripts = 0,
              !.waits = 0, !.lastCheck = FALSE, !.probeSeen = Null, !.flagSeen = Null,
              !.flagRead = Null, !.closedAt = "-"]

\* An error that is recorded while the step goes on (a faulty variant of
\* Thrown).
ThrownAndSwallowed(rec, kind, msg) == [rec EXCEPT !.err = msg, !.ek = kind]

\* A step threw: control moves to the catch block, whose first statement runs
\* at once; the flag write and the response follow in CatchWriteFlag.
Thrown(rec, kind, msg) ==
  [rec EXCEPT !.pc = "catch", !.sub = "-", !.err = msg, !.ek = kind]

Fail(r, rec, kind, msg) ==
  /\ req' = [req EXCEPT ![r] = Thrown(rec, kind, msg)]
  /\ tabSlugs' = CatchCleanup(tabSlugs, req[r].tab)

Goto(r, rec) ==
  /\ req' = [req EXCEPT ![r] = rec]
  /\ UNCHANGED tabSlugs

SetPage(t, pg) == page' = [page EXCEPT ![t] = pg]

\* ------------------------------------------------ pollForCondition
\* await chrome.tabs.get(tabId) at the top of an attempt
PollTabsGet(r) ==
  LET q == req[r] t == q.tab IN
  /\ q.pc = "poll" /\ q.sub = "get"
  /\ IF tabOpen[t]
     THEN Goto(r, [q EXCEPT !.sub = "chk"])
     ELSE Fail(r, q, "tabClosedPoll", TabClosedPollingError(impl, q.poll, t))
  /\ UNCHANGED <<nreq, cfgVars, tabVars, pageVars, csVars, stVars, hist>>

\* A poll that does not return on a truthy result (a faulty variant of PollResultMet).
PollResultNeverMet(result) == FALSE

\* const result = await executeInMainWorld(tabId, checkFunc); if (result) return result;
\* A truthy result ends the poll and the orchestration goes on to its next step.
PollResultMet(result) == result

\* A continuation that goes back to the configuration step after every poll (a
\* faulty variant of NextStepAfterPoll).
NextStepBackToConfig(n) == "s3"

NextStepAfterPoll(n) ==
  CASE n = 1 -> "s3"
    [] n = 2 -> "s5"
    [] OTHER -> "s6a"

PollCheck(r) ==
  LET q == req[r] t == q.tab IN
  /\ q.pc = "poll" /\ q.sub = "chk"
  /\ IF ~tabOpen[t]
     THEN Fail(r, q, "execFailed", ExecError(impl, t))
     ELSE LET q1 == [q EXCEPT !.evals = @ + 1, !.scripts = @ + 1,
                              !.lastCheck = CheckFunc(q.poll, page[t])] IN
          IF PollResultMet(CheckFunc(q.poll, page[t]))
          THEN Goto(r, [q1 EXCEPT !.pc = NextStepAfterPoll(q.poll), !.sub = "-"])
          ELSE Goto(r, [q1 EXCEPT !.sub = "err"])
  /\ UNCHANGED <<nreq, cfgVars, tabVars, pageVars, csVars, stVars, hist>>

\* the error probe; a falsy probe is followed by attempts++ and the sleep
PollErrorProbe(r) ==
  LET q == req[r] t == q.tab IN
  /\ q.pc = "poll" /\ q.sub = "err"
  /\ IF ~tabOpen[t]
     THEN Fail(r, q, "execFailed", ExecError(impl, t))
     ELSE LET e  == ErrorProbe(impl, page[t])
              f  == OrElse(page[t].injectErr, page[t].syncErr)
              q1 == [q EXCEPT !.scripts = @ + 1, !.probeSeen = e, !.flagSeen = f,
                              !.flagRead = f] IN
          IF Truthy(e)
          THEN IF impl = "bg"
               THEN Fail(r, q1, "pageError", PageSignaledError(e))
               ELSE Goto(r, [q1 EXCEPT !.sub = "msg"])
          ELSE Goto(r, [q1 EXCEPT !.attempts = @ + 1, !.sub = "wait"])
  /\ UNCHANGED <<nreq, cfgVars, tabVars, pageVars, csVars, stVars, hist>>

\* p2: const specificError = await executeInMainWorld(...); throw new Error(...)
PollSpecificError(r) ==
  LET q == req[r] t == q.tab IN
  /\ q.pc = "poll" /\ q.sub = "msg"
  /\ IF ~tabOpen[t]
     THEN Fail(r, q, "execFailed", ExecError(impl, t))
     ELSE Fail(r, [q EXCEPT !.scripts = @ + 1,
                            !.flagRead = OrElse(page[t].injectErr, page[t].syncErr)],
               "pageError", PageSignaledError(SpecificError(page[t])))
  /\ UNCHANGED <<nreq, cfgVars, tabVars, pageVars, csVars, stVars, hist>>

\* the sleep of POLLING_INTERVAL_MS ends; the loop condition is tested again
PollWait(r) ==
  LET q == req[r] t == q.tab
      q1 == [q EXCEPT !.waits = @ + 1] IN
  /\ q.pc = "poll" /\ q.sub = "wait"
  /\ IF PollLoopContinues(impl, q.attempts)
     THEN Goto(r, [q1 EXCEPT !.sub = "get"])
     ELSE Fail(r, q1, "timeout", TimeoutError(impl, q.poll, t))
  /\ UNCHANGED <<nreq, cfgVars, tabVars, pageVars, csVars, stVars, hist>>

\* ------------------------------------- injectAndSetupMonaco, the steps
\* Step 1: chrome.scripting.executeScript({files: [loader.js]}), then step 2's poll
InjectLoader(r) ==
  LET q == req[r] t == q.tab IN
  /\ q.pc = "s1"
  /\ IF tabOpen[t]
     THEN /\ SetPage(t, [page[t] EXCEPT !.loader = TRUE])
          /\ Goto(r, StartPoll(q, 1))
     ELSE /\ Fail(r, q, "execFailed", NoTabError(t))
          /\ UNCHANGED page
  /\ UNCHANGED <<nreq, cfgVars, tabVars, inst, lis, edits, csVars, stVars, hist>>

\* Step 3's script: reset the error flag, configure RequireJS, start loading the
\* editor. window.require is used unguarded: in a document without it the script throws
\* after the reset.
ConfigScript(pg) ==
  IF pg.require
  THEN [pg EXCEPT !.injectErr = Null, !.loading = "pending"]
  ELSE [pg EXCEPT !.injectErr = Null]

\* Step 3. When the injected function throws, executeScript either resolves
\* without a result or rejects: both are taken.
ConfigureMonaco(r) ==
  LET q == req[r] t == q.tab IN
  /\ q.pc = "s3"
  /\ IF ~tabOpen[t]
     THEN /\ Fail(r, AfterPoll(q), "execFailed", ExecError(impl, t))
          /\ UNCHANGED page
     ELSE /\ SetPage(t, ConfigScript(page[t]))
          /\ \/ Goto(r, StartPoll(q, 2))
             \/ /\ ~page[t].require
                /\ Fail(r, AfterPoll(q), "scriptThrew", ScriptThrewError)
  /\ UNCHANGED <<nreq, cfgVars, tabVars, inst, lis, edits, csVars, stVars, hist>>

\* the page's require([...]) call settles: the editor module loaded, loaded
\* without its global, or failed to load
MonacoLoadMessage(i, outcome) ==
  CASE outcome = "noGlobal" ->
         IF i = "bg" THEN <<"Monaco loaded via require, but global object not found.">>
         ELSE <<"require callback executed but window.", "monaco", ".editor is not defined!">>
    [] OTHER ->
         IF i = "bg" THEN <<"RequireJS failed to load editor.main: ", "error">>
         ELSE <<"RequireJS failed to load ", "vs/editor/editor.main", ": ", "error">>

MonacoLoadSettles(t, outcome) ==
  /\ tabOpen[t]
  /\ page[t].loading = "pending"
  /\ SetPage(t, IF outcome = "ok"
                THEN [page[t] EXCEPT !.loading = "done", !.monaco = TRUE]
                ELSE [page[t] EXCEPT !.loading = "done",
                                     !.injectErr = MonacoLoadMessage(impl, outcome)])
  /\ UNCHANGED <<bgVars, cfgVars, tabVars, inst, lis, edits, csVars, stVars, hist>>

\* loader.js has run and window.require is a function
LoaderDefinesRequire(t) ==
  /\ tabOpen[t]
  /\ page[t].loader /\ ~page[t].require
  /\ SetPage(t, [page[t] EXCEPT !.require = TRUE])
  /\ UNCHANGED <<bgVars, cfgVars, tabVars, inst, lis, edits, csVars, stVars, hist>>

ContainerNotFoundMessage(i, id) ==
  IF i = "bg" THEN <<"Container element #">> \o id \o <<" not found">>
  ELSE <<"Container element #">> \o id \o <<" not found!">>

CreationFailedMessage == <<"Editor creation failed: ", "error">>

\* document.getElementById(id)
ContainerFound(pg, id) == id = EDITOR_CONTAINER_ID /\ pg.container

\* options.initialCode as the editor's value
EditorValue(code) == IF code = Undefined THEN "" ELSE code

\* Step 5's script: the page after it ran; createThrows: monaco.editor.create
\* throws (p2: or returns nothing).
CreateScript(i, pg, r, id, createThrows) ==
  LET pg0 == [pg EXCEPT !.injectErr = Null, !.createStatus = "pending"] IN
  IF ~ContainerFound(pg, id)
  THEN [pg0 EXCEPT !.injectErr = ContainerNotFoundMessage(i, id), !.createStatus = "error"]
  ELSE IF ~pg.monaco \/ createThrows
       THEN [pg0 EXCEPT !.injectErr = CreationFailedMessage, !.createStatus = "error"]
       ELSE [pg0 EXCEPT !.cur = r, !.createStatus = "success"]

\* Step 5, then step 6's poll
CreateEditor(r, createThrows) ==
  LET q == req[r] t == q.tab IN
  /\ q.pc = "s5"
  /\ IF ~tabOpen[t]
     THEN /\ Fail(r, AfterPoll(q), "execFailed", ExecError(impl, t))
          /\ UNCHANGED <<page, inst>>
     ELSE LET pg == CreateScript(impl, page[t], r, q.containerId, createThrows) IN
            /\ SetPage(t, pg)
            /\ inst' = IF pg.cur = r /\ page[t].cur # r
                       THEN [inst EXCEPT ![r] = [tab |-> t, alive |-> TRUE,
                                                 text |-> EditorValue(q.code)]]
                       ELSE inst
            /\ Goto(r, [StartPoll(q, 3) EXCEPT
                          !.createdIn = page[t].doc,
                          !.noContainer =
                            IF ContainerFound(page[t], q.containerId) THEN Null
                            ELSE ContainerNotFoundMessage(impl, q.containerId)])
  /\ UNCHANGED <<nreq, cfgVars, tabVars, lis, edits, csVars, stVars, hist>>

\* Step 6: const creationStatus = await executeInMainWorld(() => window.monacoCreateStatus)
ReadCreationStatus(r) ==
  LET q == req[r] t == q.tab IN
  /\ q.pc = "s6a"
  /\ IF ~tabOpen[t]
     THEN Fail(r, AfterPoll(q), "execFailed", ExecError(impl, t))
     ELSE LET st == page[t].createStatus IN
          Goto(r, [AfterPoll(q) EXCEPT !.statusSeen = st,
                            !.pc = IF st # "success" THEN "s6b" ELSE "s7"])
  /\ UNCHANGED <<nreq, cfgVars, tabVars, pageVars, csVars, stVars, hist>>

\* An error text without the page's message (a faulty variant of
\* CreationFailedError).
CreationFailedErrorNoDetail(i, status, pageErr) ==
  <<"Editor creation failed or did not report success. Status: ", status>>

CreationFailedError(i, status, pageErr) ==
  (IF i = "bg"
   THEN <<"Editor creation failed or did not report success. Final Status: ", status, ", Error: ">>
   ELSE <<"Editor creation failed or did not report success. Status: ", status, ", Error: ">>)
    \o OrElse(pageErr, <<"Unknown page error">>)

\* Step 6: const creationError = await executeInMainWorld(...); throw new Error(...)
ReadCreationError(r) ==
  LET q == req[r] t == q.tab IN
  /\ q.pc = "s6b"
  /\ IF ~tabOpen[t]
     THEN Fail(r, q, "execFailed", ExecError(impl, t))
     ELSE Fail(r, q, "createFailed",
               CreationFailedError(impl, q.statusSeen, page[t].injectErr))
  /\ UNCHANGED <<nreq, cfgVars, tabVars, pageVars, csVars, stVars, hist>>

InstanceMissingMessage(i) ==
  IF i = "bg" THEN <<"Injected instance (leetCodeMonacoInstance) not found during sync setup.">>
  ELSE <<"Injected instance (window.", "leetCodeMonacoInstance", ") is not defined! Cannot attach listener.">>

\* Step 7's script: the flags after it ran
SyncSetupScript(i, pg) ==
  IF pg.cur = 0
  THEN [pg EXCEPT !.syncErr = InstanceMissingMessage(i), !.syncSetup = "failed"]
  ELSE [pg EXCEPT !.syncErr = Null, !.syncSetup = "success"]

\* Steps 7 and 8: attach the change listener to window.leetCodeMonacoInstance,
\* then sendResponse({ success: true })
InjectSyncListener(r) ==
  LET q == req[r] t == q.tab IN
  /\ q.pc = "s7"
  /\ IF ~tabOpen[t]
     THEN /\ Fail(r, q, "execFailed", ExecError(impl, t))
          /\ UNCHANGED <<page, lis>>
     ELSE /\ SetPage(t, SyncSetupScript(impl, page[t]))
          /\ lis' = IF page[t].cur # 0
                    THEN [lis EXCEPT ![r] = [NoLis EXCEPT !.inst = page[t].cur]]
                    ELSE lis
          /\ Goto(r, [q EXCEPT !.pc = "done", !.resp = @ + 1, !.respOk = TRUE])
  /\ hist' = IF tabOpen[t]
             THEN [hist EXCEPT !.injected[t] = q.slug, !.burst[r] = NoBurst]
             ELSE hist
  /\ UNCHANGED <<nreq, cfgVars, tabVars, inst, edits, csVars, stVars>>

\* error instanceof Error ? error.message : String(error)
\* p2: error?.message || 'Unknown background script error during injection/sync'
ErrorMessage(i, msg) ==
  IF i = "bg" THEN msg
  ELSE OrElse(msg, <<"Unknown background script error during injection/sync">>)

\* A flag script that overwrites the two status flags whatever they hold (a
\* faulty variant of ErrorFlagScript).
ErrorFlagScriptOverwrites(i, pg, msg) ==
  [pg EXCEPT !.injectErr = <<"Background script failure: ">> \o msg,
             !.createStatus = "error",
             !.syncSetup = "failed"]

\* the catch block's script: the flags written back into the page
ErrorFlagScript(i, pg, msg) ==
  IF i = "bg"
  THEN [pg EXCEPT !.injectErr = <<"Background script failure: ">> \o msg,
                  !.createStatus = IF @ = "pending" THEN "error" ELSE @,
                  !.syncSetup = IF @ = "pending" THEN "failed" ELSE @]
  ELSE [pg EXCEPT !.injectErr = <<"Background script error: ">> \o msg,
                  !.createStatus = "error",
                  !.syncSetup = "failed"]

\* the catch block after its first statement: best-effort flag write, then
\* sendResponse({ success: false, error: errorMessage })
CatchWriteFlag(r) ==
  LET q == req[r] t == q.tab IN
  /\ q.pc = "catch"
  /\ IF tabOpen[t]
     THEN SetPage(t, ErrorFlagScript(impl, page[t], ErrorMessage(impl, q.err)))
     ELSE UNCHANGED page
  /\ Goto(r, [AfterPoll(q) EXCEPT !.pc = "done", !.resp = @ + 1, !.respOk = FALSE,
                                  !.err = ErrorMessage(impl, q.err)])
  /\ UNCHANGED <<nreq, cfgVars, tabVars, inst, lis, edits, csVars, stVars, hist>>

\* --------------------------------------------- background: messages
NoOptions == [present |-> FALSE, slug |-> Null, containerId |-> Null, code |-> Undefined]

Options(slug, containerId, code) ==
  [present |-> TRUE, slug |-> slug, containerId |-> containerId, code |-> code]

\* The onMessage listener on { action: 'injectAndCreateMonaco', options }: the
\* request record once the listener has returned.
\* bg: `message.options` falsy: no branch matches, the listener returns false and
\*     sendResponse is never called ("dropped").
\* p2: handleInjectRequest destructures `options` first: with options undefined
\*     the async function rejects before anything else runs ("crashed").
InjectRequestRecord(i, t, o) ==
  [NoReq EXCEPT !.tab = t,
                !.pc = IF o.present THEN "s1" ELSE IF i = "bg" THEN "dropped" ELSE "crashed",
                !.hasOpts = o.present,
                !.slug = o.slug, !.containerId = o.containerId, !.code = o.code]

\* tabSlugs once the listener has returned
InjectRequestRegistry(reg, t, o) ==
  IF o.present THEN RegistryAssociate(reg, t, o.slug) ELSE reg

ReceiveInject(t, o) ==
  /\ nreq < MaxRequests
  /\ nreq' = nreq + 1
  /\ req' = [req EXCEPT ![nreq + 1] = InjectRequestRecord(impl, t, o)]
  /\ tabSlugs' = InjectRequestRegistry(tabSlugs, t, o)

\* --------------------------------------------------- tab lifecycle
\* chrome.tabs.onRemoved listener
OnRemoved(t) ==
  /\ removedPending[t]
  /\ removedPending' = [removedPending EXCEPT ![t] = FALSE]
  /\ tabSlugs' = IF Truthy(tabSlugs[t]) THEN RegistryDelete(tabSlugs, t) ELSE tabSlugs
  /\ hist' = [hist EXCEPT !.injected[t] = Null]
  /\ UNCHANGED <<req, nreq, cfgVars, tabOpen, tabUrl, updQ, navs, pageVars, csVars,
                 stVars>>

\* The test of the onUpdated listener: the URL is still the registered problem's page.
\* bg: tab.url.includes("leetcode.com/problems/") && tab.url.includes(`/problems/${slug}`)
\* p2: tab.url.includes(`/problems/${slug}`)
UrlMatchesSlug(i, url, slug) ==
  IF i = "bg"
  THEN Includes(url, <<"leetcode.com", "/problems/">>) /\ Includes(url, <<"/problems/">> \o slug)
  ELSE Includes(url, <<"/problems/">> \o slug)

\* A slug lookup that answers with a problem for any location (a faulty variant
\* of GetProblemSlug).
GetProblemSlugAnyPath(url) == TwoSum

\* window.location.pathname.match(/problems\/([^/]+)/)
GetProblemSlug(url) ==
  LET i == IndexOf(url, "/problems/") IN
  IF i = 0 THEN Null
  ELSE LET rest == SubSeq(url, i + 1, Len(url))
           j    == IndexOf(rest, "/") IN
       IF j = 0 THEN rest ELSE SubSeq(rest, 1, j - 1)

\* chrome.tabs.onUpdated listener, on the next event of the tab
OnUpdated(t) ==
  /\ updQ[t] # <<>>
  /\ LET status == Head(updQ[t])
         url    == tabUrl[t]
         slug   == tabSlugs[t]
         drop   == Truthy(slug) /\ status = "complete" /\ Truthy(url)
                     /\ ~UrlMatchesSlug(impl, url, slug) IN
     /\ updQ' = [updQ EXCEPT ![t] = Tail(@)]
     /\ tabSlugs' = IF drop THEN RegistryDelete(tabSlugs, t) ELSE tabSlugs
     /\ hist' = [hist EXCEPT
                   !.lastNav[t] = [n |-> 1, had |-> slug, status |-> status,
                                   loc |-> GetProblemSlug(url),
                                   after |-> IF drop THEN Null ELSE slug],
                   !.injected[t] = IF status = "complete" /\ GetProblemSlug(url) # @
                                   THEN Null ELSE @]
  /\ UNCHANGED <<req, nreq, cfgVars, tabOpen, tabUrl, removedPending, navs, pageVars,
                 csVars, stVars>>

\* The tab's instances and timers go with its document.
InstancesWithout(t) ==
  [i \in ReqIds |-> IF inst[i].tab = t THEN [NoInst EXCEPT !.tab = t] ELSE inst[i]]

ListenersWithout(t) ==
  [l \in ReqIds |-> IF lis[l].inst # 0 /\ inst[lis[l].inst].tab = t THEN NoLis ELSE lis[l]]

\* Where each poll of the tab stood when the tab was closed.
MarkClosed(t) ==
  [r \in ReqIds |->
     IF req[r].tab = t /\ req[r].pc = "poll" /\ req[r].closedAt = "-"
     THEN [req[r] EXCEPT !.closedAt =
             IF req[r].sub = "wait" /\ ~PollLoopContinues(impl, req[r].attempts)
             THEN "lastWait" ELSE req[r].sub]
     ELSE req[r]]

\* The user closes the tab.
CloseTab(t) ==
  /\ tabOpen[t]
  /\ tabOpen' = [tabOpen EXCEPT ![t] = FALSE]
  /\ removedPending' = [removedPending EXCEPT ![t] = TRUE]
  /\ updQ' = [updQ EXCEPT ![t] = <<>>]
  /\ inst' = InstancesWithout(t)
  /\ lis' = ListenersWithout(t)
  /\ csPc' = [csPc EXCEPT ![t] = "gone"]
  /\ csInit' = [csInit EXCEPT ![t].running = FALSE]
  /\ saveMsgs' = SelectSeq(saveMsgs, LAMBDA m : m.tab # t)
  /\ req' = MarkClosed(t)
  /\ UNCHANGED <<tabSlugs, nreq, cfgVars, tabUrl, navs, page, edits, initAttempts, csRead,
                 writes, storage, hist>>

\* The tab goes to another location. With reload the document is replaced (with
\* or without the '#editor' element already in it) and the content script starts
\* again; without, the page changes its location itself.
Navigate(t, url, reload, hasEditor) ==
  /\ tabOpen[t]
  /\ navs < MaxNavs
  /\ navs' = navs + 1
  /\ tabUrl' = [tabUrl EXCEPT ![t] = url]
  /\ updQ' = [updQ EXCEPT ![t] = @ \o <<"loading", "complete">>]
  /\ IF reload
     THEN /\ page' = [page EXCEPT ![t] =
                        [FreshPage(@.lcShape, @.snippets, @.langText, hasEditor)
                           EXCEPT !.doc = navs + 1]]
          /\ inst' = InstancesWithout(t)
          /\ lis' = ListenersWithout(t)
          /\ csPc' = [csPc EXCEPT ![t] = "polling"]
          /\ initAttempts' = [initAttempts EXCEPT ![t] = 0]
          /\ csRead' = [csRead EXCEPT ![t] = NoRead]
          /\ csInit' = [csInit EXCEPT ![t] = NoInit]
     ELSE UNCHANGED <<page, inst, lis, csVars>>
  /\ UNCHANGED <<bgVars, cfgVars, tabOpen, removedPending, edits, stVars, hist>>

\* A second invocation in the same tab (the background accepts any number of
\* requests from a tab), with options of the sender's choosing or with none.
ExtraOptions(t) ==
  { NoOptions,
    Options(Null, EDITOR_CONTAINER_ID, "x = 2"),
    Options(ThreeSum, <<"no-such-container">>, Undefined),
    Options(GetProblemSlug(tabUrl[t]), EDITOR_CONTAINER_ID, "") }

ExtraInjectRequest(t, o) ==
  /\ tabOpen[t]
  /\ ReceiveInject(t, o)
  /\ UNCHANGED <<cfgVars, tabVars, pageVars, csVars, stVars, hist>>

\* ------------------------------------------------- the content script
\* langText.toLowerCase().trim() on the sample texts
LowerTrim(tok) ==
  CASE tok = "Python3"     -> "python3"
    [] tok = "Brainfuck"   -> "brainfuck"
    [] tok = " C++ "       -> "c++"
    [] tok = "Java"        -> "java"
    [] tok = "Erlang"      -> "erlang"
    [] tok = "Constructor" -> "constructor"
    [] tok = "   "         -> ""
    [] OTHER               -> tok

\* langMap of the version
LangMap(c) ==
  LET common == { <<"python", "python">>, <<"python3", "python">>, <<"java", "java">>,
                  <<"c++", "cpp">>, <<"cpp", "cpp">>, <<"c", "c">>, <<"c#", "csharp">>,
                  <<"csharp", "csharp">>, <<"javascript", "javascript">>,
                  <<"typescript", "typescript">>, <<"php", "php">>, <<"swift", "swift">>,
                  <<"kotlin", "kotlin">>, <<"dart", "dart">>, <<"golang", "go">>,
                  <<"go", "go">>, <<"ruby", "ruby">>, <<"scala", "scala">>,
                  <<"rust", "rust">> } IN
  IF c = "inj2" THEN common
  ELSE common \cup { <<"racket", "racket">>, <<"erlang", "erlang">>, <<"elixir", "elixir">> }

\* the properties every object literal inherits whose names are their own
\* lower-case form, and what reading one yields (a function, an object)
InheritedKeys == {"constructor", "__proto__"}
InheritedValue(name) == "<Object.prototype." \o name \o ">"

\* langMap[langText]: an own property of the literal, else an inherited one,
\* else undefined
LangMapLookup(c, name) ==
  IF \E e \in LangMap(c) : e[1] = name
  THEN (CHOOSE e \in LangMap(c) : e[1] = name)[2]
  ELSE IF name \in InheritedKeys THEN InheritedValue(name) ELSE Undefined

\* getLeetCodeLanguage: the selector's text (Null: no element, or no text);
\* `langMap[langText] || 'plaintext'`, or `if (monacoLang) return monacoLang`
GetLeetCodeLanguage(c, langText) ==
  IF langText = ReadThrows THEN "plaintext"
  ELSE IF ~Truthy(langText) THEN "plaintext"
  ELSE LET monacoLang == LangMapLookup(c, LowerTrim(langText[1])) IN
       IF monacoLang = Undefined THEN "plaintext" ELSE monacoLang

\* codeSnippets.map(s => s?.langSlug).join(', ')
RECURSIVE JoinLangSlugs(_)
JoinLangSlugs(snippets) ==
  IF snippets = <<>> THEN ""
  ELSE IF Len(snippets) = 1 THEN snippets[1].langSlug
       ELSE snippets[1].langSlug \o ", " \o JoinLangSlugs(Tail(snippets))

\* const fallbackCode = `...`
FallbackCode(c, language) ==
  CASE c = "inj1" -> "// Monaco Editor Injected!\n// Failed to retrieve default code from page data.\n// Detected language: "
                       \o language \o "\n// Please check console logs."
    [] c = "inj2" -> "// Monaco Editor Injected! (Language: " \o language
                       \o ")\n// Failed to retrieve default code snippet for this language.\n// Please check console logs."
    [] OTHER      -> "// Monaco Editor Injected!\n// Failed to retrieve default code from page data.\n// Please check console logs."

\* the predicate of codeSnippets.find(...)
SnippetMatches(c, langSlug, language) ==
  \/ langSlug = language
  \/ language = "python" /\ langSlug = "python3"
  \/ language = "go" /\ langSlug = "golang"
  \/ c \in {"inj1", "inj2"} /\ language = "csharp" /\ langSlug = "c#"
  \/ c = "inj2" /\ language = "cpp" /\ langSlug = "c++"

\* A default-code lookup without the first-snippet step (a faulty variant of
\* GetDefaultCode).
GetDefaultCodeNoFirstSnippet(c, snippets, language) ==
  IF \E k \in 1..Len(snippets) : SnippetMatches(c, snippets[k].langSlug, language)
  THEN snippets[CHOOSE k \in 1..Len(snippets) :
                  /\ SnippetMatches(c, snippets[k].langSlug, language)
                  /\ \A j \in 1..(k - 1) : ~SnippetMatches(c, snippets[j].langSlug, language)].code
  ELSE FallbackCode(c, language)

\* getDefaultBoilerplateCode / getDefaultCodeFromPageData; snippets = <<>>: the
\* page holds no codeSnippets array
GetDefaultCode(c, snippets, language) ==
  IF snippets = <<>> THEN FallbackCode(c, language)
  ELSE IF \E k \in 1..Len(snippets) : SnippetMatches(c, snippets[k].langSlug, language)
       THEN LET k == CHOOSE k \in 1..Len(snippets) :
                       /\ SnippetMatches(c, snippets[k].langSlug, language)
                       /\ \A j \in 1..(k - 1) : ~SnippetMatches(c, snippets[j].langSlug, language)
            IN snippets[k].code
       ELSE IF c = "inj2"
            THEN FallbackCode(c, language) \o "\n// Available snippet languages: "
                   \o JoinLangSlugs(snippets)
            ELSE snippets[1].code

\* the '#editor' element shows up in the document
EditorElementAppears(t) ==
  /\ tabOpen[t]
  /\ ~page[t].editorEl
  /\ SetPage(t, [page[t] EXCEPT !.editorEl = TRUE])
  /\ UNCHANGED <<bgVars, cfgVars, tabVars, inst, lis, edits, csVars, stVars, hist>>

\* findEditorContainerAndPrepare: the value it returns
PreparedContainerId(pg) ==
  IF ~pg.editorEl THEN Null
  ELSE IF ~pg.parent THEN Null
       ELSE EDITOR_CONTAINER_ID

\* A call that never reuses the container (a faulty variant of PrepareContainer).
PrepareContainerAlwaysNew(pg) ==
  IF ~Truthy(PreparedContainerId(pg)) THEN pg
  ELSE [pg EXCEPT !.hidden = TRUE, !.container = TRUE, !.containers = @ + 1]

\* findEditorContainerAndPrepare: the document after the call
PrepareContainer(pg) ==
  IF ~Truthy(PreparedContainerId(pg)) THEN pg
  ELSE [pg EXCEPT !.hidden = TRUE,
                  !.container = TRUE,
                  !.containers = IF pg.containers > 0 THEN @ ELSE @ + 1]

\* the document after a call, the call counted
Prepared(pg) == [PrepareContainer(pg) EXCEPT !.prepares = @ + 1]

\* A further call of findEditorContainerAndPrepare in the same document: the
\* content script is injected into it again, or the function is called anew.
PrepareCall(t) ==
  /\ tabOpen[t]
  /\ page[t].prepares < MaxPrepares
  /\ SetPage(t, Prepared(page[t]))
  /\ UNCHANGED <<bgVars, cfgVars, tabVars, inst, lis, edits, csVars, stVars, hist>>

\* the '#editor' element is put under a parent element
EditorElementAttached(t) ==
  /\ tabOpen[t]
  /\ ~page[t].parent
  /\ SetPage(t, [page[t] EXCEPT !.parent = TRUE])
  /\ UNCHANGED <<bgVars, cfgVars, tabVars, inst, lis, edits, csVars, stVars, hist>>

\* what the interval callback tests before it initializes
InitTrigger(c, pg) ==
  IF c = "inj2" THEN pg.editorEl \/ pg.container ELSE pg.editorEl

\* An interval that is never cleared (a faulty variant of ClearInterval).
ClearIntervalNothing(running) == running

\* clearInterval(checkInterval): whether the interval still runs after it
ClearInterval(running) == FALSE

\* One tick of the initialization interval; when the element is there:
\* clearInterval and initializeEditor up to its chrome.storage.local.get call.
CsTick(t) ==
  /\ tabOpen[t]
  /\ csInit[t].running
  /\ initAttempts' = [initAttempts EXCEPT ![t] = @ + 1]
  /\ IF InitTrigger(cs, page[t])
     THEN /\ csInit' = [csInit EXCEPT ![t].running = ClearInterval(@),
                                      ![t].inits = @ + 1]
          /\ LET slug     == GetProblemSlug(tabUrl[t])
                 language == GetLeetCodeLanguage(cs, page[t].langText) IN
             IF ~Truthy(slug)
             THEN /\ csPc' = [csPc EXCEPT ![t] = "stopped"]
                  /\ UNCHANGED <<page, csRead>>
             ELSE IF ~Truthy(PreparedContainerId(page[t]))
                  THEN /\ csPc' = [csPc EXCEPT ![t] = "stopped"]
                       /\ SetPage(t, Prepared(page[t]))
                       /\ UNCHANGED csRead
                  ELSE /\ SetPage(t, Prepared(page[t]))
                       /\ csRead' = [csRead EXCEPT ![t] =
                                       [key |-> InitStorageKey(cs, slug, language),
                                        slug |-> slug, language |-> language,
                                        containerId |-> PreparedContainerId(page[t]),
                                        request |-> 0]]
                       /\ csPc' = [csPc EXCEPT ![t] = "reading"]
     ELSE IF initAttempts[t] + 1 >= MaxInitAttempts(cs)
          THEN /\ csInit' = [csInit EXCEPT ![t].running = ClearInterval(@)]
               /\ csPc' = [csPc EXCEPT ![t] = IF @ = "polling" THEN "stopped" ELSE @]
               /\ UNCHANGED <<page, csRead>>
          ELSE UNCHANGED <<page, csPc, csRead, csInit>>
  /\ UNCHANGED <<bgVars, cfgVars, tabVars, inst, lis, edits, stVars, hist>>

\* the value chrome.storage.local.get hands to the callback for the key
StoredValue(store, key) == store[key]

\* the callback's choice of initialCode; readOk: no chrome.runtime.lastError
\* (the sample store never holds null, which inj1 alone would also pass over)
InitialCode(c, readOk, stored, snippets, language) ==
  IF ~readOk THEN GetDefaultCode(c, snippets, language)
  ELSE IF stored # Undefined THEN stored
       ELSE GetDefaultCode(c, snippets, language)

\* The chrome.storage.local.get callback of initializeEditor: choose the initial
\* code and send the injectAndCreateMonaco message, which the background receives.
CsStorageGetDone(t, readOk) ==
  /\ tabOpen[t]
  /\ csPc[t] = "reading"
  /\ nreq < MaxRequests
  /\ LET rd   == csRead[t]
         code == InitialCode(cs, readOk, StoredValue(storage, rd.key),
                             page[t].snippets, rd.language) IN
     /\ ReceiveInject(t, Options(rd.slug, rd.containerId, code))
     /\ hist' = [hist EXCEPT !.lastInit =
                   [n |-> 1, slug |-> rd.slug, language |-> rd.language, readOk |-> readOk,
                    initialCode |-> code, saved |-> hist.lastSaved[rd.slug],
                    stored |-> StoredValue(storage, rd.key), snippets |-> page[t].snippets,
                    request |-> nreq + 1]]
  /\ csPc' = [csPc EXCEPT ![t] = "requested"]
  /\ csRead' = [csRead EXCEPT ![t].request = nreq + 1]
  /\ csInit' = [csInit EXCEPT ![t].sent = @ + 1]
  /\ UNCHANGED <<cfgVars, tabVars, pageVars, initAttempts, stVars>>

\* chrome.runtime.lastError.message when the port closes without a response
LastErrorMessage == <<"The message port closed before a response was received.">>

\* The container's content once the sendMessage callback has returned.
\* lastError: chrome.runtime.lastError is set; otherwise the response is
\* { success: ok, error: err }.
\* inj1: displayErrorInContainer on a messaging error and on a failure
\* inj2: the same two cases, written into the container directly
\* p0:   a failure is shown; a messaging error is only logged
ShownAfterResponse(c, before, lastError, ok, err) ==
  IF lastError
  THEN IF c = "p0" THEN before
       ELSE <<"Error communicating with background script: ">> \o LastErrorMessage
  ELSE IF ok THEN before
       ELSE <<"Failed to load Monaco Editor: ">>
              \o OrElse(err, IF c = "inj1" THEN <<"Unknown error during injection.">>
                                           ELSE <<"Unknown error">>)

\* The callback of the content script's sendMessage runs: with the background's
\* response, or with lastError when the port closed before any response.
CsResponse(t, lastError) ==
  LET q == req[csRead[t].request] IN
  /\ tabOpen[t]
  /\ csPc[t] = "requested"
  /\ IF lastError THEN q.resp = 0 ELSE q.resp > 0
  /\ SetPage(t, IF page[t].container
                THEN [page[t] EXCEPT !.shown =
                        ShownAfterResponse(cs, @, lastError, q.respOk, q.err)]
                ELSE page[t])
  /\ csPc' = [csPc EXCEPT ![t] = IF lastError THEN "messagingError" ELSE "answered"]
  /\ UNCHANGED <<bgVars, cfgVars, tabVars, inst, lis, edits, initAttempts, csRead, csInit,
                 stVars, hist>>

\* ------------------------------------------------ the page: editing
\* A clearTimeout that cancels nothing (a faulty variant of ClearTimeout).
ClearTimeoutNothing(armed) == armed

\* clearTimeout(debounceTimeout): the timers of the listener still pending after it
ClearTimeout(armed) == 0

\* The user changes the content of an editor; every change listener attached to
\* it restarts its debounce timer.
UserEdit(i, c) ==
  /\ inst[i].alive
  /\ tabOpen[inst[i].tab]
  /\ edits < MaxEdits
  /\ c # inst[i].text
  /\ edits' = edits + 1
  /\ inst' = [inst EXCEPT ![i].text = c]
  /\ lis' = [l \in ReqIds |->
               IF lis[l].inst = i
               THEN [lis[l] EXCEPT !.timer = TRUE, !.armed = ClearTimeout(@) + 1]
               ELSE lis[l]]
  /\ hist' = [hist EXCEPT !.burst =
                [l \in ReqIds |->
                   IF lis[l].inst # i THEN @[l]
                   ELSE IF lis[l].timer
                        THEN [@[l] EXCEPT !.changes = @ + 1, !.last = c]
                        ELSE [NoBurst EXCEPT !.changes = 1, !.last = c]]]
  /\ UNCHANGED <<bgVars, cfgVars, tabVars, page, csVars, stVars>>

\* The editor the debounced callback reads with getValue():
\* bg: window.leetCodeMonacoInstance at the time the callback runs
\* p2: the instance captured when the listener was attached
CallbackEditor(i, l, pg) == IF i = "bg" THEN pg.cur ELSE lis[l].inst

SyncErrorMessage(i, shape) ==
  IF i = "bg"
  THEN CASE shape = "noAccessor" -> <<"lcMonaco.editor.getEditors not available for sync.">>
         [] shape = "noEditors"  -> <<"Target LeetCode editor instance not found via getEditors().">>
         [] shape = "noMethod"   -> <<"Failed to sync: Target editor missing known value setting methods.">>
         [] OTHER                -> <<"Runtime error during sync/save dispatch: ", "error">>
  ELSE CASE shape = "noAccessor" -> <<"lcMonaco.editor.getEditors not found">>
         [] shape = "noEditors"  -> <<"No editors from getEditors()">>
         [] shape = "noMethod"   -> <<"Target editor sync methods failed">>
         [] OTHER                -> <<"Runtime error during sync: ", "error">>

\* the sync to the original editor worked
SyncSuccessful(shape) == shape \in {"model", "instance"}

\* A sync that calls the instance's setValue after the model's (a faulty variant
\* of SyncMethods).
SyncMethodsBoth(shape) ==
  CASE shape = "model"    -> <<"model.setValue", "instance.setValue">>
    [] shape = "instance" -> <<"instance.setValue">>
    [] OTHER              -> <<>>

\* the setValue calls the callback makes on the original editor, in order:
\* targetModel.setValue(currentCode) when getModel() gives a model with setValue;
\* targetEditorInstance.setValue(currentCode) only if (!syncSuccessful && ...)
SyncMethods(shape) ==
  CASE shape = "model"    -> <<"model.setValue">>
    [] shape = "instance" -> <<"instance.setValue">>
    [] OTHER              -> <<>>

\* bg: the callback gets as far as getValue() (line 334) only with an accessor
\* and a target editor; p2 reads the text first
ReadsEditor(shape) == shape \notin {"noAccessor", "noEditors"}

\* the debounced callback dispatches the save event
\* bg: only inside `if (syncSuccessful)`; the earlier branches return or leave through
\*     the catch
\* p2: after the sync attempt, whatever its outcome
DispatchesSave(i, shape) == IF i = "bg" THEN SyncSuccessful(shape) ELSE TRUE

\* window.monacoSyncError after the callback
\* bg: a failing branch writes its message only when no message is there (the catch
\*     always writes); p2 writes its message
SyncErrAfter(i, shape, before) ==
  IF SyncSuccessful(shape) THEN Null
  ELSE IF i = "bg" /\ shape # "throws" /\ Truthy(before) THEN before
       ELSE SyncErrorMessage(i, shape)

SyncStatusAfter(i, shape) ==
  IF SyncSuccessful(shape) THEN "synced_and_save_requested"
  ELSE IF i = "bg" THEN "error" ELSE "save_requested_sync_failed"

\* A listener that relays only a truthy code, so that the empty text is dropped
\* (a faulty variant of RelaySave).
RelaySaveTruthyCode(queue, t, code) ==
  IF code \notin {Undefined, ""} THEN Append(queue, [tab |-> t, code |-> code]) ELSE queue

\* the content script's listener for '__monaco_save_code__':
\* if (event.detail && event.detail.code !== undefined) chrome.runtime.sendMessage(...)
RelaySave(queue, t, code) ==
  IF code # Undefined THEN Append(queue, [tab |-> t, code |-> code]) ELSE queue

\* event.detail of a '__monaco_save_code__' event: absent, without a code, or
\* with a code
SaveEventDetails ==
  {[hasDetail |-> FALSE, code |-> Undefined], [hasDetail |-> TRUE, code |-> Undefined]}
    \cup {[hasDetail |-> TRUE, code |-> c] : c \in Codes}

\* A script of the page dispatches '__monaco_save_code__' with detail d; the
\* content script's listener runs.
PageSaveEvent(t, d) ==
  /\ tabOpen[t]
  /\ hist.lastEvent.n < MaxSaves
  /\ saveMsgs' = IF d.hasDetail THEN RelaySave(saveMsgs, t, d.code) ELSE saveMsgs
  /\ hist' = [hist EXCEPT !.lastEvent = [n |-> @.n + 1, tab |-> t,
                                         hasDetail |-> d.hasDetail, code |-> d.code]]
  /\ UNCHANGED <<bgVars, cfgVars, tabVars, pageVars, csVars, writes, storage>>

\* The debounce timer of listener l fires: the callback syncs to the original
\* editor and dispatches the save event, which the content script relays.
DebounceFire(l) ==
  LET i  == lis[l].inst
      t  == inst[i].tab
      pg == page[t]
      currentCode == inst[CallbackEditor(impl, l, pg)].text
      sent == DispatchesSave(impl, pg.lcShape) IN
  /\ lis[l].timer
  /\ tabOpen[t]
  /\ lis' = [lis EXCEPT ![l].armed = @ - 1, ![l].timer = lis[l].armed > 1]
  /\ SetPage(t, [pg EXCEPT !.syncErr = SyncErrAfter(impl, pg.lcShape, pg.syncErr),
                           !.syncStatus = SyncStatusAfter(impl, pg.lcShape),
                           !.lcText = IF SyncMethods(pg.lcShape) # <<>> THEN currentCode ELSE @])
  /\ saveMsgs' = IF sent THEN RelaySave(saveMsgs, t, currentCode) ELSE saveMsgs
  /\ hist' = [hist EXCEPT
                !.burst[l] = [@ EXCEPT !.fires = @ + 1,
                                       !.used = IF impl = "bg" /\ ~ReadsEditor(pg.lcShape)
                                                THEN Undefined ELSE currentCode],
                !.lastFire =
                [n |-> 1, tab |-> t, text |-> inst[i].text, dispatched |-> sent,
                 code |-> IF sent THEN currentCode ELSE Undefined, shape |-> pg.lcShape,
                 lcBefore |-> pg.lcText,
                 lcAfter |-> IF SyncMethods(pg.lcShape) # <<>> THEN currentCode ELSE pg.lcText,
                 methods |-> SyncMethods(pg.lcShape),
                 errAfter |-> SyncErrAfter(impl, pg.lcShape, pg.syncErr),
                 status |-> SyncStatusAfter(impl, pg.lcShape)]]
  /\ UNCHANGED <<bgVars, cfgVars, tabVars, inst, edits, csVars, writes, storage>>

\* ------------------------------------------------ background: saving
\* A test that lets an undefined code through (a faulty variant of SaveAccepted).
SaveAcceptedAnyCode(slug, code) == Truthy(slug)

\* A save handler that does not look at the registry entry (a faulty variant of
\* SaveAccepted).
SaveAcceptedWithoutEntry(slug, code) == code # Undefined

\* if (slug && codeToSave !== undefined)   (p2: ... && codeToSave !== null)
SaveAccepted(slug, code) == Truthy(slug) /\ code # Undefined

\* the error of the immediate failure response
\* bg: `Cannot save: Slug ('${slug}') is missing or code is undefined.`
\* p2: `Cannot save code: ${reason}.` with reason 'slug missing' or 'code missing'
SaveRejectedMessage(i, slug) ==
  IF i = "bg"
  THEN <<"Cannot save: Slug ('">> \o (IF Truthy(slug) THEN slug ELSE <<"undefined">>)
         \o <<"') is missing or code is undefined.">>
  ELSE <<"Cannot save code: ", IF ~Truthy(slug) THEN "slug missing" ELSE "code missing", ".">>

\* chrome.runtime.lastError.message of a failed chrome.storage.local.set
StorageErrorMessage == <<"storage backend error">>

\* what the listener leaves behind for one request: whether it called
\* chrome.storage.local.set, and the responses sent so far
SaveRecord(i, t, slug, code) ==
  IF SaveAccepted(slug, code)
  THEN [NoSave EXCEPT !.n = 1, !.tab = t, !.slug = slug, !.code = code, !.wrote = TRUE]
  ELSE [NoSave EXCEPT !.n = 1, !.tab = t, !.slug = slug, !.code = code,
                      !.resp = 1, !.err = SaveRejectedMessage(i, slug)]

\* the storage callback's response: lastError set or not
SaveResponse(rec, ok) ==
  [rec EXCEPT !.resp = @ + 1, !.ok = ok, !.err = IF ok THEN Null ELSE StorageErrorMessage]

\* The onMessage listener on { action: 'saveCodeForTab', code }: up to the
\* chrome.storage.local.set call (or the immediate failure response).
BgReceiveSave ==
  /\ saveMsgs # <<>>
  /\ LET m == Head(saveMsgs) slug == tabSlugs[m.tab]
         rec == SaveRecord(impl, m.tab, slug, m.code) IN
     /\ saveMsgs' = Tail(saveMsgs)
     /\ writes' = IF SaveAccepted(slug, m.code)
                  THEN Append(writes, [key |-> StorageKey(slug), code |-> m.code,
                                       slug |-> slug, tab |-> m.tab, rec |-> rec])
                  ELSE writes
     /\ hist' = [hist EXCEPT
                   !.nsaves = @ + 1,
                   !.nresp = @ + rec.resp,
                   !.lastSave = IF rec.wrote THEN @ ELSE rec,
                   !.lastProcessed = IF rec.wrote THEN [@ EXCEPT ![slug] = m.code] ELSE @,
                   !.savers = IF rec.wrote THEN [@ EXCEPT ![slug] = @ \cup {m.tab}] ELSE @]
  /\ UNCHANGED <<bgVars, cfgVars, tabVars, pageVars, csVars, storage>>

\* chrome.storage.local.set completes (ok) or fails with lastError; the
\* callback answers the request
StorageSetDone(ok) ==
  /\ writes # <<>>
  /\ LET w == Head(writes) IN
     /\ writes' = Tail(writes)
     /\ storage' = IF ok THEN [storage EXCEPT ![w.key] = w.code] ELSE storage
     /\ hist' = [hist EXCEPT !.lastSave = [SaveResponse(w.rec, ok) EXCEPT
                                             !.backendOk = ok,
                                             !.stored = storage'[w.key]],
                             !.nresp = @ + SaveResponse(w.rec, ok).resp,
                             !.lastFailed[w.slug] = ~ok,
                             !.lastSaved[w.slug] = IF ok THEN w.code ELSE @]
  /\ UNCHANGED <<bgVars, cfgVars, tabVars, pageVars, csVars, saveMsgs>>

\* A saveCodeForTab message from a tab, whatever its code field holds: the
\* background accepts the message from any content script of the extension.
SaveCodes == {"", "print(1)", Undefined}

ExtraSaveRequest(t, code) ==
  /\ tabOpen[t]
  /\ Len(saveMsgs) + hist.nsaves < MaxSaves
  /\ saveMsgs' = Append(saveMsgs, [tab |-> t, code |-> code])
  /\ UNCHANGED <<bgVars, cfgVars, tabVars, pageVars, csVars, writes, storage, hist>>

\* The user opens a further tab on the page of a problem.
OpenTab(t, url) ==
  /\ ~tabOpen[t]
  /\ csPc[t] = "polling"
  /\ ~removedPending[t]
  /\ tabOpen' = [tabOpen EXCEPT ![t] = TRUE]
  /\ tabUrl' = [tabUrl EXCEPT ![t] = url]
  /\ UNCHANGED <<bgVars, cfgVars, removedPending, updQ, navs, pageVars, csVars, stVars, hist>>

\* ------------------------------------------------------ specifications
LoadOutcomes == {"ok", "noGlobal", "failed"}

\* one step of some request's injectAndSetupMonaco / handleInjectRequest
InjectionStep ==
  \E r \in ReqIds :
    \/ InjectLoader(r)
    \/ PollTabsGet(r)
    \/ PollCheck(r)
    \/ PollErrorProbe(r)
    \/ PollSpecificError(r)
    \/ PollWait(r)
    \/ ConfigureMonaco(r)
    \/ \E createThrows \in BOOLEAN : CreateEditor(r, createThrows)
    \/ ReadCreationStatus(r)
    \/ ReadCreationError(r)
    \/ InjectSyncListener(r)
    \/ CatchWriteFlag(r)

\* what the scripts loaded into the page do on their own
LoaderStep ==
  \E t \in Tabs :
    \/ LoaderDefinesRequire(t)
    \/ \E outcome \in LoadOutcomes : MonacoLoadSettles(t, outcome)

SaveStep ==
  \/ \E i \in ReqIds, c \in Codes : UserEdit(i, c)
  \/ \E l \in ReqIds : DebounceFire(l)
  \/ BgReceiveSave
  \/ \E ok \in BOOLEAN : StorageSetDone(ok)

Next ==
  \/ InjectionStep
  \/ LoaderStep
  \/ SaveStep
  \/ \E t \in Tabs :
       \/ EditorElementAppears(t)
       \/ CsTick(t)
       \/ \E readOk \in BOOLEAN : CsStorageGetDone(t, readOk)
       \/ \E lastError \in BOOLEAN : CsResponse(t, lastError)
       \/ CloseTab(t)
       \/ OnRemoved(t)
       \/ \E url \in Urls, reload \in BOOLEAN, hasEditor \in BOOLEAN :
            Navigate(t, url, reload, hasEditor)
       \/ OnUpdated(t)
       \/ \E o \in ExtraOptions(t) : ExtraInjectRequest(t, o)

Spec == Init /\ [][Next]_vars

\* No request is being worked on.
Settled == \A r \in ReqIds : req[r].pc \in {"free", "done", "dropped", "crashed"}

\* No request is inside pollForCondition.
BetweenPolls == \A r \in ReqIds : req[r].pc # "poll"

\* No poll has gone past its first attempt.
FirstAttempt == \A r \in ReqIds : req[r].pc = "poll" => req[r].attempts = 0

\* No debounce timer runs and no save is on its way.
Quiet == saveMsgs = <<>> /\ writes = <<>> /\ \A l \in ReqIds : ~lis[l].timer

\* One tab on the page of a problem whose '#editor' element is there from the
\* start and whose original editor works.
InitInject ==
  /\ Init
  /\ cs = "p0"
  /\ page = [t \in Tabs |-> FreshPage("model", <<>>, Null, TRUE)]

\* The poller under every timing of the page's scripts and of the tab's closing.
\* Requests are worked on one after another; the page is reloaded between polls.
NextPoll ==
  \/ InjectionStep
  \/ LoaderStep
  \/ \E t \in Tabs :
       \/ CsTick(t)
       \/ Settled /\ CsStorageGetDone(t, TRUE)
       \/ CloseTab(t)
       \/ OnRemoved(t)
       \/ BetweenPolls /\ Navigate(t, tabUrl[t], TRUE, TRUE)

SpecPoll == InitInject /\ [][NextPoll]_vars

\* Requests as the registry sees them: besides the content script's own, one
\* without options, one for another problem with a container that does not
\* exist, one without a problem slug.
RegistryOptions ==
  { NoOptions,
    Options(ThreeSum, <<"no-such-container">>, Undefined),
    Options(Null, EDITOR_CONTAINER_ID, "x = 2") }

\* The registry under every order of requests, navigations and closings. Requests
\* are worked on one after another; the page's scripts settle during a poll's
\* first attempt; the tab is closed between polls and goes to another location
\* (the page changing its location itself) while no request is being worked on.
NextRegistry ==
  \/ InjectionStep
  \/ FirstAttempt /\ LoaderStep
  \/ \E t \in Tabs :
       \/ CsTick(t)
       \/ Settled /\ CsStorageGetDone(t, TRUE)
       \/ BetweenPolls /\ CloseTab(t)
       \/ OnRemoved(t)
       \/ Settled /\ \E url \in Urls \ {tabUrl[t]} : Navigate(t, url, FALSE, TRUE)
       \/ OnUpdated(t)
       \/ Settled /\ \E o \in RegistryOptions : ExtraInjectRequest(t, o)

SpecRegistry == InitInject /\ [][NextRegistry]_vars

\* Editing and saving: one tab on the page of a problem, with every version of
\* the content script over a working original editor and every shape of the
\* original editor under one version of the content script.
InitSave ==
  /\ Init
  /\ page[1].snippets = <<>> /\ page[1].langText = <<"Python3">> /\ page[1].editorEl
  /\ cs = "p0" \/ page[1].lcShape = "model"

\* The steps of a request on a page whose editor module loads and whose
\* monaco.editor.create works: no error flag is ever seen by a poll.
InjectionStepSave ==
  \E r \in ReqIds :
    \/ InjectLoader(r)
    \/ PollTabsGet(r)
    \/ PollCheck(r)
    \/ PollErrorProbe(r)
    \/ PollWait(r)
    \/ ConfigureMonaco(r)
    \/ CreateEditor(r, FALSE)
    \/ ReadCreationStatus(r)
    \/ InjectSyncListener(r)
    \/ CatchWriteFlag(r)

LoaderStepSave ==
  \E t \in Tabs : LoaderDefinesRequire(t) \/ MonacoLoadSettles(t, "ok")

\* The page's scripts settle during a poll's first attempt; edits and saves take
\* place, and the page is reloaded, while no request is being worked on (the
\* reload once every save has gone through).
NextSave ==
  \/ InjectionStepSave
  \/ FirstAttempt /\ LoaderStepSave
  \/ Settled /\ SaveStep
  \/ \E t \in Tabs :
       \/ CsTick(t)
       \/ Settled /\ \E readOk \in BOOLEAN : CsStorageGetDone(t, readOk)
       \/ Settled /\ Quiet /\ Navigate(t, tabUrl[t], TRUE, TRUE)

SpecSave == InitSave /\ [][NextSave]_vars

\* Editing alone: the changes of the user and the debounce timers of the
\* listeners, over every shape of the original editor; the save events stay
\* with the content script.
InitDebounce == InitSave /\ cs = "p0"

NextDebounce ==
  \/ InjectionStepSave
  \/ FirstAttempt /\ LoaderStepSave
  \/ Settled /\ \E i \in ReqIds, c \in Codes : UserEdit(i, c)
  \/ Settled /\ \E l \in ReqIds : DebounceFire(l)
  \/ \E t \in Tabs :
       \/ CsTick(t)
       \/ Settled /\ CsStorageGetDone(t, TRUE)

SpecDebounce == InitDebounce /\ [][NextDebounce]_vars

\* Saving with everything delivered: the page stays, the storage backend
\* succeeds, and every timer that runs fires, every message sent is received,
\* every write started completes.
NextLive ==
  \/ InjectionStepSave
  \/ FirstAttempt /\ LoaderStepSave
  \/ \E i \in ReqIds, c \in Codes : UserEdit(i, c)
  \/ \E l \in ReqIds : DebounceFire(l)
  \/ BgReceiveSave
  \/ StorageSetDone(TRUE)
  \/ \E t \in Tabs :
       \/ CsTick(t)
       \/ CsStorageGetDone(t, TRUE)

Delivery ==
  /\ WF_vars(\E l \in ReqIds : DebounceFire(l))
  /\ WF_vars(BgReceiveSave)
  /\ WF_vars(StorageSetDone(TRUE))

SpecLive == InitSave /\ [][NextLive]_vars /\ Delivery

\* Saving as the background sees it: two tabs, on the same problem or on two,
\* each injected by its content script, and saveCodeForTab messages with any
\* code field from either tab, before, after or without a registry entry; the
\* storage backend succeeds or fails. Messages are sent and handled while no
\* request is being worked on, and a request starts once every save has gone
\* through.
NextStore ==
  \/ InjectionStepSave
  \/ FirstAttempt /\ LoaderStepSave
  \/ Settled /\ BgReceiveSave
  \/ Settled /\ \E ok \in BOOLEAN : StorageSetDone(ok)
  \/ \E t \in Tabs :
       \/ CsTick(t)
       \/ Settled /\ Quiet /\ CsStorageGetDone(t, TRUE)
       \/ \E slug \in {TwoSum, ThreeSum} : OpenTab(t, ProblemUrl(slug))
       \/ Settled /\ \E code \in SaveCodes : ExtraSaveRequest(t, code)

SpecStore == InitInject /\ [][NextStore]_vars

\* The content script on a freshly loaded page: every version of it, every
\* language text and snippet list the page may embed, the '#editor' element there
\* or not yet, and a store that holds nothing or code kept from an earlier visit.
StoredBefore == {Undefined, "", "x = 2"}

\* the state after construction with the given document in every tab and the
\* given store
InitOn(pg, store) ==
  /\ impl \in BgImpls
  /\ cs \in CsImpls
  /\ tabSlugs = [t \in Tabs |-> Null]
  /\ req = [r \in ReqIds |-> NoReq]
  /\ nreq = 0
  /\ tabOpen = [t \in Tabs |-> t = 1]
  /\ tabUrl \in [Tabs -> {ProblemUrl(TwoSum)}]
  /\ removedPending = [t \in Tabs |-> FALSE]
  /\ updQ = [t \in Tabs |-> <<>>]
  /\ navs = 0
  /\ page = [t \in Tabs |-> pg]
  /\ inst = [r \in ReqIds |-> NoInst]
  /\ lis = [r \in ReqIds |-> NoLis]
  /\ edits = 0
  /\ csPc = [t \in Tabs |-> "polling"]
  /\ initAttempts = [t \in Tabs |-> 0]
  /\ csRead = [t \in Tabs |-> NoRead]
  /\ csInit = [t \in Tabs |-> NoInit]
  /\ saveMsgs = <<>>
  /\ writes = <<>>
  /\ storage = store
  /\ hist = NoHist

InitContent ==
  \E sn \in SnippetSets, lt \in LangTexts, hasEditor \in BOOLEAN, kept \in StoredBefore :
    InitOn(FreshPage("model", sn, lt, hasEditor),
           [k \in AllKeys |->
              IF k \in {InitStorageKey(c, TwoSum, "python") : c \in CsImpls}
              THEN kept ELSE Undefined])

NextContent ==
  \/ InjectionStepSave
  \/ FirstAttempt /\ LoaderStepSave
  \/ \E t \in Tabs :
       \/ EditorElementAppears(t)
       \/ CsTick(t)
       \/ Settled /\ \E readOk \in BOOLEAN : CsStorageGetDone(t, readOk)
       \/ CsResponse(t, FALSE)
       \/ csPc[t] = "polling" /\ \E hasEditor \in BOOLEAN :
            Navigate(t, ProblemSetUrl, FALSE, hasEditor)

SpecContent == InitContent /\ [][NextContent]_vars

\* The content script's request from its sending to the callback, over every
\* way the injection can end and with the port closing at any moment before
\* the response.
InitAnswer ==
  InitOn(FreshPage("model", <<>>, Null, TRUE), [k \in AllKeys |-> Undefined])

NextAnswer ==
  \/ InjectionStep
  \/ FirstAttempt /\ LoaderStep
  \/ \E t \in Tabs :
       \/ CsTick(t)
       \/ CsStorageGetDone(t, TRUE)
       \/ \E lastError \in BOOLEAN : CsResponse(t, lastError)

SpecAnswer == InitAnswer /\ [][NextAnswer]_vars

\* Language detection over the texts the selector may show, a missing element
\* and a read that throws.
InitLanguage ==
  \E lt \in SelectorTexts, hasEditor \in BOOLEAN :
    InitOn(FreshPage("model", <<>>, lt, hasEditor), [k \in AllKeys |-> Undefined])

NextLanguage ==
  \E t \in Tabs :
    \/ EditorElementAppears(t)
    \/ CsTick(t)

SpecLanguage == InitLanguage /\ [][NextLanguage]_vars

\* ================================================================ claims
\* ---------------------------------------------------------------- C1
\* C1: each time the debounced change callback runs it dispatches the
\* '__monaco_save_code__' event carrying the editor's current text, whatever
\* the outcome of the sync to the original editor, in both backgrounds.
C1_SaveAlwaysDispatched ==
  hist.lastFire.n = 1 =>
    hist.lastFire.dispatched /\ hist.lastFire.code = hist.lastFire.text

\* ---------------------------------------------------------------- C2
\* C2: once a save of code c for problem p has succeeded, the next
\* initializeEditor on a page of p reads c and passes exactly c as initialCode.
C2_SavedCodeIsInitialCode ==
  (hist.lastInit.n = 1 /\ hist.lastInit.readOk /\ hist.lastInit.saved # Undefined) =>
    hist.lastInit.initialCode = hist.lastInit.saved

\* ---------------------------------------------------------------- C3
\* C3: in every state tabSlugs has an entry for a tab if and only if an
\* injection for that entry's problem has succeeded in the tab and the tab has
\* since neither been closed nor gone to another problem.
C3_EntryIffInjected ==
  \A t \in Tabs : tabSlugs[t] = hist.injected[t]

\* ---------------------------------------------------------------- C4
\* C4: after a successful injection on problem p, with a succeeding storage
\* backend and everything delivered, every debounced change that fires with
\* text c is eventually followed by storage key 'leetcodeCode-p' holding c.
C4_FiredChangeIsStored ==
  \A c \in Codes :
    (hist.lastFire.n = 1 /\ hist.lastFire.text = c)
      ~> (storage[StorageKey(GetProblemSlug(tabUrl[1]))] = c)

C7_FirstAttemptReturnsAfterOneScript ==
  \A r \in ReqIds :
    LET q == req[r] IN
    /\ (q.pc = "poll" /\ q.evals >= 1) => ~q.lastCheck
    /\ (q.pc \in {"s3", "s5", "s6a"} /\ q.evals = 1) =>
         /\ q.lastCheck
         /\ q.scripts = 1
         /\ q.waits = 0
         /\ q.attempts = 0

\* a poll returned from its first attempt
C7_Witness ==
  \E r \in ReqIds :
    /\ req[r].pc = "s3" /\ req[r].lastCheck
    /\ req[r].evals = 1 /\ req[r].scripts = 1 /\ req[r].waits = 0

\* ---------------------------------------------------------------- C8
\* C8: a poll whose tab was closed while it was waiting fails with the
\* tab-closed error of its next attempt, and tabSlugs has no entry for the tab.
C8_ClosedWhileWaitingFailsTabClosed ==
  \A r \in ReqIds :
    (req[r].pc = "catch" /\ req[r].closedAt \in {"wait", "lastWait"}) =>
      req[r].ek = "tabClosedPoll" /\ tabSlugs[req[r].tab] = Null

\* ---------------------------------------------------------------- C9
\* C9: once a navigation event of a tab with a registry entry has been handled
\* and the tab's location carries another problem (or none), tabSlugs has no
\* entry for the tab.
C9_NavigationReleasesEntry ==
  \A t \in Tabs :
    LET nav == hist.lastNav[t] IN
    (nav.n = 1 /\ nav.status = "complete" /\ Truthy(nav.had) /\ nav.loc # nav.had) =>
      nav.after = Null

\* ---------------------------------------------------------------- C10
\* C10: every injectAndCreateMonaco message is answered exactly once: never
\* twice, and a request the background has finished with has its answer.
C10_AnsweredExactlyOnce ==
  \A r \in ReqIds :
    /\ req[r].resp <= 1
    /\ req[r].pc \in {"done", "dropped", "crashed"} => req[r].resp = 1

C13_DebounceRunsOncePerBurst ==
  \A l \in ReqIds :
    LET b == hist.burst[l] IN
    /\ lis[l].armed <= 1
    /\ lis[l].timer <=> lis[l].armed = 1
    /\ b.fires <= 1
    /\ lis[l].timer => b.fires = 0
    /\ (lis[l].inst # 0 /\ ~lis[l].timer /\ b.changes > 0) => b.fires = 1
    /\ (b.fires = 1 /\ b.used # Undefined) => b.used = b.last

C13_Witness ==
  \E l \in ReqIds :
    /\ lis[l].inst # 0
    /\ ~lis[l].timer
    /\ hist.burst[l].changes = 2
    /\ hist.burst[l].fires = 1
    /\ hist.burst[l].used = hist.burst[l].last

\* C14: initializeEditor of leetcode_injector.js (lines 330-404) sends the
\* injectAndCreateMonaco request with this initial content: the stored value of
\* the problem's key when the read succeeded and found one; otherwise the code
\* of the first snippet whose langSlug matches the detected language; otherwise
\* the code of the first snippet; otherwise the placeholder string.
C14_InitialContentPriority ==
  LET h        == hist.lastInit
      matching == {k \in 1..Len(h.snippets) :
                     SnippetMatches("inj1", h.snippets[k].langSlug, h.language)}
      expected ==
        IF h.readOk /\ storage[StorageKey(h.slug)] # Undefined
        THEN storage[StorageKey(h.slug)]
        ELSE IF matching # {}
             THEN h.snippets[CHOOSE k \in matching : \A j \in matching : k <= j].code
             ELSE IF h.snippets # <<>> THEN h.snippets[1].code
                  ELSE FallbackCode("inj1", h.language) IN
  (cs = "inj1" /\ h.n = 1) =>
    /\ h.request = 1
    /\ req[1].hasOpts
    /\ req[1].slug = h.slug
    /\ req[1].code = expected

\* the first snippet is taken because none matches the detected language
C14_Witness ==
  /\ cs = "inj1"
  /\ hist.lastInit.n = 1
  /\ hist.lastInit.stored = Undefined
  /\ hist.lastInit.language = "python"
  /\ hist.lastInit.snippets = << [langSlug |-> "java", code |-> "class Solution {}"] >>
  /\ req[1].code = "class Solution {}"

C16_UnknownLanguageIsPlaintext ==
  \A t \in Tabs :
    LET text == page[t].langText
        isKey == /\ Truthy(text)
                 /\ text # ReadThrows
                 /\ LowerTrim(text[1]) \in {e[1] : e \in LangMap(cs)} IN
    (csPc[t] = "reading" /\ ~isKey) => csRead[t].language = "plaintext"

\* C17: once the content script's injection request has ended without success
\* (a { success: false } response, or a messaging error in place of a response)
\* and the callback has run, the container shows an error message that
\* includes the reason.
C17_FailureShownInContainer ==
  \A t \in Tabs :
    LET q == req[csRead[t].request] IN
    /\ (tabOpen[t] /\ csPc[t] = "answered" /\ ~q.respOk) =>
         Truthy(page[t].shown) /\ Truthy(q.err) /\ Includes(page[t].shown, q.err)
    /\ (tabOpen[t] /\ csPc[t] = "messagingError") =>
         Truthy(page[t].shown) /\ Includes(page[t].shown, LastErrorMessage)

\* C18: whenever a request is answered { success: true }, the page's
\* monacoCreateStatus and monacoSyncSetup are both 'success' at that moment; a
\* sync-setup script that ends with monacoSyncSetup = 'failed' is followed by
\* the failure response.
C18_SuccessOnlyWhenBothFlagsSuccess ==
  [][\A r \in ReqIds :
       (req[r].resp = 0 /\ req'[r].resp = 1 /\ req'[r].respOk) =>
         /\ page'[req[r].tab].createStatus = "success"
         /\ page'[req[r].tab].syncSetup = "success"]_vars

\* The position of a request in the sequence of steps: 1 loader injection,
\* 2 runtime poll, 3 configuration, 4 Monaco-ready poll, 5 creation script,
\* 6 creation-status poll, 7 status confirmation, 8 sync listener, 9 success
\* response; 0 outside the sequence (failed, not started).
StepRank(rec) ==
  CASE rec.pc = "s1"   -> 1
    [] rec.pc = "poll" -> 2 * rec.poll
    [] rec.pc = "s3"   -> 3
    [] rec.pc = "s5"   -> 5
    [] rec.pc \in {"s6a", "s6b"} -> 7
    [] rec.pc = "s7"   -> 8
    [] rec.pc = "done" /\ rec.respOk -> 9
    [] OTHER -> 0

\* C19: a request moves through its steps in the fixed order, one step at a
\* time and never backwards; it leaves a poll for the next step only after the
\* poll's check was met, reaches the sync listener only after the creation
\* status was read as 'success', and otherwise leaves the sequence for good
\* (the catch block and the failure response).
C19_StepsInFixedOrder ==
  [][\A r \in ReqIds :
       LET a == req[r]
           b == req'[r] IN
       (StepRank(a) > 0 /\ a # b) =>
         \/ StepRank(b) = StepRank(a) /\ StepRank(a) < 9
         \/ /\ StepRank(b) = StepRank(a) + 1
            /\ (a.pc = "poll" => b.lastCheck)
            /\ (b.pc = "s7" => b.statusSeen = "success")
         \/ b.pc = "catch"]_vars

\* a request that went through every step
C19_Witness ==
  \E r \in ReqIds :
    /\ req[r].pc = "done"
    /\ req[r].respOk
    /\ req[r].statusSeen = "success"
    /\ lis[r].inst # 0

PollFindsPageReady(r) ==
  /\ req[r].pc = "poll"
  /\ tabOpen[req[r].tab] => CheckFunc(req[r].poll, page[req[r].tab])

InjectionStepSucceeds ==
  \E r \in ReqIds :
    \/ InjectLoader(r)
    \/ PollTabsGet(r)
    \/ PollFindsPageReady(r) /\ PollCheck(r)
    \/ ConfigureMonaco(r)
    \/ CreateEditor(r, FALSE)
    \/ ReadCreationStatus(r)
    \/ InjectSyncListener(r)

InjectionStepReady ==
  \/ InjectionStepSucceeds
  \/ \E r \in ReqIds : CatchWriteFlag(r)

InitFrame == InitInject /\ impl = "bg"

NextFrame ==
  \/ InjectionStepReady
  \/ LoaderStepSave
  \/ Settled /\ BgReceiveSave
  \/ Settled /\ StorageSetDone(TRUE)
  \/ \E t \in Tabs :
       \/ CsTick(t)
       \/ Quiet /\ CsStorageGetDone(t, TRUE)
       \/ OpenTab(t, ProblemUrl(ThreeSum))
       \/ Settled /\ Quiet /\ ExtraSaveRequest(t, "x = 2")
       \/ BetweenPolls /\ Quiet /\ CloseTab(t)
       \/ Quiet /\ OnRemoved(t)
       \/ Settled /\ Quiet /\ tabUrl[t] # ProblemSetUrl
            /\ Navigate(t, ProblemSetUrl, FALSE, TRUE)
       \/ Quiet /\ OnUpdated(t)

SpecFrame == InitFrame /\ [][NextFrame]_vars

\* Termination of the orchestration: the content script's request and further
\* requests arrive one after another, with and without an options field; the page's scripts settle at any time or never,
\* the tab may be closed at any time, and every script execution, tab lookup and
\* sleep of a request that is being worked on eventually returns.
TermOptions == {NoOptions, Options(TwoSum, EDITOR_CONTAINER_ID, "")}

NextTerm ==
  \/ InjectionStep
  \/ LoaderStep
  \/ \E t \in Tabs :
       \/ Settled /\ CsTick(t)
       \/ Settled /\ CsStorageGetDone(t, TRUE)
       \/ CloseTab(t)
       \/ Settled /\ \E o \in TermOptions : ExtraInjectRequest(t, o)

EveryCallReturns ==
  \A r \in ReqIds :
    WF_vars(\/ InjectLoader(r)
            \/ PollTabsGet(r)
            \/ PollCheck(r)
            \/ PollErrorProbe(r)
            \/ PollSpecificError(r)
            \/ PollWait(r)
            \/ ConfigureMonaco(r)
            \/ \E createThrows \in BOOLEAN : CreateEditor(r, createThrows)
            \/ ReadCreationStatus(r)
            \/ ReadCreationError(r)
            \/ InjectSyncListener(r)
            \/ CatchWriteFlag(r))

SpecTerm == InitInject /\ [][NextTerm]_vars /\ EveryCallReturns

\* Save events of the page: those of the debounced callback of an injected
\* editor and those dispatched with any detail, under every content script.
NextRelay ==
  \/ InjectionStepSucceeds
  \/ LoaderStepSave
  \/ Settled /\ \E i \in ReqIds, c \in Codes : UserEdit(i, c)
  \/ Settled /\ \E l \in ReqIds : DebounceFire(l)
  \/ \E t \in Tabs :
       \/ CsTick(t)
       \/ CsStorageGetDone(t, TRUE)
       \/ \E d \in SaveEventDetails : PageSaveEvent(t, d)

SpecRelay == InitSave /\ [][NextRelay]_vars

\* The initialization interval of the content script: the '#editor' element is
\* there from the start, appears later or never; the page is reloaded once the
\* request of the first load was answered.
InitInterval ==
  \E hasEditor \in BOOLEAN :
    InitOn(FreshPage("model", <<>>, Null, hasEditor), [k \in AllKeys |-> Undefined])

NextInterval ==
  \/ InjectionStepSucceeds
  \/ LoaderStepSave
  \/ \E t \in Tabs :
       \/ EditorElementAppears(t)
       \/ CsTick(t)
       \/ CsStorageGetDone(t, TRUE)
       \/ CsResponse(t, FALSE)
       \/ Settled /\ \E hasEditor \in BOOLEAN : Navigate(t, tabUrl[t], TRUE, hasEditor)

SpecInterval == InitInterval /\ [][NextInterval]_vars

\* The service worker is stopped while idle and started again by the next
\* event: the module is evaluated anew and tabSlugs is the empty object again.
\* Pages, content scripts and storage are untouched.
BackgroundRestart ==
  /\ Settled
  /\ writes = <<>>
  /\ \E t \in Tabs : Truthy(tabSlugs[t])
  /\ tabSlugs' = [t \in Tabs |-> Null]
  /\ UNCHANGED <<req, nreq, cfgVars, tabVars, pageVars, csVars, stVars, hist>>

\* One tab whose editor is injected, saves from it, restarts of the background
\* and further injection requests from the tab.  Every poll ends at its first
\* check and one save is on its way at a time.
NextRestart ==
  \/ InjectionStepSucceeds
  \/ LoaderStepSave
  \/ BgReceiveSave
  \/ StorageSetDone(TRUE)
  \/ BackgroundRestart
  \/ \E t \in Tabs :
       \/ CsTick(t)
       \/ CsStorageGetDone(t, TRUE)
       \/ Quiet /\ ExtraSaveRequest(t, "x = 2")
       \/ Settled /\ ExtraInjectRequest(t, Options(TwoSum, EDITOR_CONTAINER_ID, ""))

SpecRestart == InitInject /\ [][NextRestart]_vars

\* C21: when a step of a request throws, the tab's tabSlugs entry is removed
\* at once; the catch block then writes the error flag into the page when the
\* tab is there, and answers { success: false } with the message of the error
\* that was thrown, whether or not the flag could be written.
C21_FailureCleansUpAndAnswers ==
  [][\A r \in ReqIds :
       LET a == req[r]
           b == req'[r]
           t == a.tab IN
       /\ (a.pc \notin {"catch", "free"} /\ b.pc = "catch") =>
            tabSlugs'[t] = Null /\ Truthy(b.err)
       /\ (a.pc = "catch" /\ b # a) =>
            /\ b.pc = "done"
            /\ b.resp = a.resp + 1
            /\ ~b.respOk
            /\ b.err = a.err
            /\ tabOpen[t] => Includes(page'[t].injectErr, a.err)
            /\ ~tabOpen[t] => page' = page]_vars

\* a request whose step failed because the tab was gone, so that the flag
\* could not be written either, and which was answered with the step's error
C21_Witness ==
  \E r \in ReqIds :
    /\ req[r].pc = "done"
    /\ req[r].ek \in {"tabClosed", "execFailed"}
    /\ ~tabOpen[req[r].tab]
    /\ req[r].resp = 1
    /\ ~req[r].respOk
    /\ Truthy(req[r].err)
    /\ tabSlugs[req[r].tab] = Null

\* C22: once a step of a request has thrown, the request only moves from the
\* catch block to its failure response: the one step it still takes touches
\* nothing of the page but the error flag and the two status flags, and after
\* the response the request never changes again.
C22_NoStepAfterFailure ==
  [][\A r \in ReqIds :
       LET a == req[r]
           b == req'[r]
           t == a.tab IN
       a.ek # "none" =>
         /\ a.pc \in {"catch", "done"}
         /\ a.pc = "done" => b = a /\ ~a.respOk /\ a.resp = 1
         /\ (a.pc = "catch" /\ b # a) =>
              /\ b.pc = "done"
              /\ \A u \in Tabs \ {t} : page'[u] = page[u]
              /\ [page'[t] EXCEPT !.injectErr = Null, !.createStatus = "undefined",
                                  !.syncSetup = "undefined"]
                 = [page[t] EXCEPT !.injectErr = Null, !.createStatus = "undefined",
                                   !.syncSetup = "undefined"]
              /\ <<inst, lis, edits>>' = <<inst, lis, edits>>]_vars

\* a request that failed and was answered while its tab stays open and the
\* loader it injected has finished loading the library afterwards
C22_Witness ==
  \E r \in ReqIds :
    /\ req[r].pc = "done"
    /\ req[r].ek # "none"
    /\ tabOpen[req[r].tab]
    /\ Truthy(page[req[r].tab].injectErr)
    /\ page[req[r].tab].monaco
    /\ page[req[r].tab].cur = 0

\* C23: a poll fails with a page-signaled error only on a flag written during
\* the same attempt.  Before its first poll (for window.require) a request has
\* run nothing but the loader injection, which writes no flag, so no request
\* fails its first poll with a page-signaled error.
C23_FirstPollNeverFailsOnFlag ==
  \A r \in ReqIds :
    ~(req[r].pc = "catch" /\ req[r].ek = "pageError" /\ req[r].poll = 1)

\* C24: whenever a request is answered { success: true }, the tabSlugs entry
\* of its tab is the problemSlug the request was sent with.
C24_SuccessMeansRegistered ==
  [][\A r \in ReqIds :
       (req[r].pc # "done" /\ req'[r].pc = "done" /\ req'[r].respOk) =>
         tabSlugs'[req[r].tab] = req[r].slug]_vars

\* C25: a step that belongs to one tab (a step of one of its requests, its
\* closing, its location change, one of its events or its save) leaves the
\* tabSlugs entry of every other tab as it was, and every change of an entry is
\* made by a step of its own tab; a save that is written goes to the key of the
\* sender's registered problem, which is the key of no other tab's registered
\* problem unless the two problems are the same.
C25_OtherTabsUntouched ==
  [][LET Acts(t) ==
           \/ \E r \in ReqIds : req'[r] # req[r] /\ req'[r].tab = t
           \/ updQ'[t] # updQ[t]
           \/ removedPending'[t] # removedPending[t]
           \/ tabOpen'[t] # tabOpen[t]
           \/ tabUrl'[t] # tabUrl[t]
           \/ csPc'[t] # csPc[t]
           \/ saveMsgs' # saveMsgs /\ saveMsgs # <<>> /\ Head(saveMsgs).tab = t
     IN
     /\ \A t \in Tabs : \A u \in Tabs \ {t} :
          Acts(t) => tabSlugs'[u] = tabSlugs[u]
     /\ \A u \in Tabs : tabSlugs'[u] # tabSlugs[u] => Acts(u)
     /\ Len(writes') > Len(writes) =>
          LET w == writes'[Len(writes')] IN
          /\ w.key = StorageKey(tabSlugs[w.tab])
          /\ \A v \in Tabs \ {w.tab} :
               (Truthy(tabSlugs[v]) /\ tabSlugs[v] # tabSlugs[w.tab]) =>
                 w.key # StorageKey(tabSlugs[v])]_vars

\* the request of the first tab has failed and its entry is gone, while the
\* second tab is still registered for its own problem and a save of the second
\* tab was written under that problem
C25_Witness ==
  /\ \E r \in ReqIds : req[r].pc = "done" /\ ~req[r].respOk /\ req[r].tab = 1
  /\ tabSlugs[1] = Null
  /\ tabSlugs[2] = ThreeSum
  /\ hist.savers[ThreeSum] = {2}
  /\ hist.savers[TwoSum] = {}

\* C26: every injection request that was received is eventually answered,
\* with success or with failure, when every script execution, tab lookup and
\* sleep returns.
C26_EveryRequestAnswered ==
  \A r \in ReqIds : (req[r].pc # "free") ~> (req[r].pc = "done" /\ req[r].resp = 1)

\* C27: while a tab has no tabSlugs entry (as after a restart of the
\* background), every saveCodeForTab from it is answered { success: false }
\* at once and nothing is written; an absent entry comes back only in the step
\* that receives an injectAndCreateMonaco request from that tab.
C27_NoEntryNoSaveUntilReinjected ==
  [][/\ (saveMsgs # <<>> /\ saveMsgs' = Tail(saveMsgs) /\ hist'.nsaves = hist.nsaves + 1
           /\ tabSlugs[Head(saveMsgs).tab] = Null) =>
          /\ writes' = writes
          /\ storage' = storage
          /\ hist'.nresp = hist.nresp + 1
          /\ hist'.lastSave.tab = Head(saveMsgs).tab
          /\ hist'.lastSave.resp = 1
          /\ ~hist'.lastSave.ok
          /\ ~hist'.lastSave.wrote
     /\ \A t \in Tabs :
          (tabSlugs[t] = Null /\ tabSlugs'[t] # Null) =>
            /\ nreq' = nreq + 1
            /\ req'[nreq'].tab = t
            /\ req'[nreq'].slug = tabSlugs'[t]]_vars

\* the editor of tab 1 was injected, the background restarted, and a save from
\* the tab has been answered with failure without a write
C27_Witness ==
  /\ \E r \in ReqIds : req[r].pc = "done" /\ req[r].respOk /\ req[r].tab = 1
  /\ \E i \in ReqIds : inst[i].tab = 1
  /\ tabOpen[1]
  /\ tabSlugs[1] = Null
  /\ hist.lastSave.n = 1
  /\ hist.lastSave.tab = 1
  /\ hist.lastSave.slug = Null
  /\ hist.lastSave.resp = 1
  /\ ~hist.lastSave.ok
  /\ writes = <<>>
  /\ \A k \in AllKeys : storage[k] = Undefined

C29_SyncPushesTextOrRecordsError ==
  hist.lastFire.n = 1 =>
    LET f == hist.lastFire IN
    /\ f.shape = "model" => f.methods = <<"model.setValue">>
    /\ f.shape = "instance" => f.methods = <<"instance.setValue">>
    /\ f.shape \in {"model", "instance"} =>
         /\ f.lcAfter = f.text
         /\ f.errAfter = Null
    /\ f.shape \in {"noAccessor", "noEditors", "noMethod", "throws"} =>
         /\ f.methods = <<>>
         /\ f.lcAfter = f.lcBefore
         /\ f.errAfter = SyncErrorMessage(impl, f.shape)
         /\ f.status # "synced_and_save_requested"

\* a callback that pushed a changed text into an original editor that has only
\* the instance's setValue
C29_Witness ==
  /\ hist.lastFire.n = 1
  /\ hist.lastFire.shape = "instance"
  /\ hist.lastFire.methods = <<"instance.setValue">>
  /\ hist.lastFire.lcAfter = "print(1)"
  /\ hist.lastFire.lcBefore = ""
  /\ page[hist.lastFire.tab].lcText = "print(1)"

\* C30: within one page load initializeEditor is called at most once and at
\* most one injectAndCreateMonaco message is sent, and once it was called or
\* the attempt ceiling was reached the interval no longer runs.
C30_InitializesOncePerPageLoad ==
  \A t \in Tabs :
    /\ csInit[t].inits <= 1
    /\ csInit[t].sent <= csInit[t].inits
    /\ (csInit[t].inits = 1 \/ initAttempts[t] >= MaxInitAttempts(cs)) => ~csInit[t].running
    /\ initAttempts[t] <= MaxInitAttempts(cs)

\* the second page load of the tab has found the element on a later tick, has
\* initialized once and has sent its one request, the second of the run
C30_Witness ==
  /\ navs = 1
  /\ initAttempts[1] = 3
  /\ csInit[1].inits = 1
  /\ csInit[1].sent = 1
  /\ ~csInit[1].running
  /\ nreq = 2

\* C31: the interval callback runs at most MAX_INIT_ATTEMPTS times in a page
\* load (15; 20 in the second version of leetcode_injector.js).  As long as no
\* tick has found the '#editor' element, no injectAndCreateMonaco request was
\* sent and the page is unmodified (the element is not hidden, there is no
\* container); once the interval has stopped without finding it, exactly
\* MAX_INIT_ATTEMPTS ticks have run and nothing is initialized afterwards.
C31_GivesUpAfterMaxInitAttempts ==
  \A t \in Tabs :
    LET ceiling == IF cs = "inj2" THEN MAX_INIT_ATTEMPTS_INJ2 ELSE MAX_INIT_ATTEMPTS IN
    /\ initAttempts[t] <= ceiling
    /\ csInit[t].inits = 0 =>
         /\ csInit[t].sent = 0
         /\ ~page[t].hidden
         /\ ~page[t].container
         /\ csPc[t] \in {"polling", "stopped"}
    /\ (tabOpen[t] /\ csInit[t].inits = 0 /\ ~csInit[t].running) =>
         /\ initAttempts[t] = ceiling
         /\ csPc[t] = "stopped"

C31_Witness ==
  /\ cs = "inj2"
  /\ tabOpen[1]
  /\ ~page[1].editorEl
  /\ csInit[1] = [running |-> FALSE, inits |-> 0, sent |-> 0]
  /\ initAttempts[1] = MAX_INIT_ATTEMPTS_INJ2
  /\ csPc[1] = "stopped"
  /\ nreq = 0

\* A document whose '#editor' element is there or not, with or without a parent
\* element; findEditorContainerAndPrepare is called by the content script's
\* initialization and any number of further times, before, during and after
\* the injection; the element appears and is attached at any time; the page is
\* reloaded once the request was answered.
InitPrepare ==
  \E hasEditor \in BOOLEAN, hasParent \in BOOLEAN :
    InitOn([FreshPage("model", <<>>, Null, hasEditor) EXCEPT !.parent = hasParent],
           [k \in AllKeys |-> Undefined])

NextPrepare ==
  \/ InjectionStepSucceeds
  \/ LoaderStepSave
  \/ \E t \in Tabs :
       \/ PrepareCall(t)
       \/ EditorElementAppears(t)
       \/ EditorElementAttached(t)
       \/ CsTick(t)
       \/ CsStorageGetDone(t, TRUE)
       \/ CsResponse(t, FALSE)
       \/ Settled /\ \E hasEditor \in BOOLEAN : Navigate(t, tabUrl[t], TRUE, hasEditor)

SpecPrepare == InitPrepare /\ [][NextPrepare]_vars

\* C32: the document never holds more than one element with the id
\* 'monaco-editor-container', and '#editor' is hidden only while that
\* container exists; in a document where findEditorContainerAndPrepare returns
\* null ('#editor' missing or without a parent element) no step hides the
\* element or creates a container.
C32_OneContainerHiddenOnlyWithIt ==
  /\ [](\A t \in Tabs :
          /\ page[t].containers <= 1
          /\ page[t].container <=> page[t].containers = 1
          /\ page[t].hidden => page[t].containers = 1)
  /\ [][\A t \in Tabs :
          (~Truthy(PreparedContainerId(page[t])) /\ page'[t].doc = page[t].doc) =>
            /\ page'[t].hidden = page[t].hidden
            /\ page'[t].containers = page[t].containers
            /\ ~page'[t].hidden]_vars

C32_Witness ==
  /\ page[1].prepares = 3
  /\ csInit[1].inits = 1
  /\ page[1].containers = 1
  /\ page[1].hidden
  /\ csPc[1] = "answered"

\* One tab whose editor is injected, saves from it, and further injection
\* requests from the tab: without options, with options that carry no
\* problemSlug, with the slug of another problem.  Every poll ends at its first
\* check and one save is on its way at a time.
SlugOptions ==
  { NoOptions,
    Options(Null, EDITOR_CONTAINER_ID, ""),
    Options(ThreeSum, EDITOR_CONTAINER_ID, "") }

NextSlug ==
  \/ InjectionStepSucceeds
  \/ LoaderStepSave
  \/ BgReceiveSave
  \/ StorageSetDone(TRUE)
  \/ \E t \in Tabs :
       \/ CsTick(t)
       \/ CsStorageGetDone(t, TRUE)
       \/ Quiet /\ ExtraSaveRequest(t, "x = 2")
       \/ Settled /\ \E o \in SlugOptions : ExtraInjectRequest(t, o)

SpecSlug == InitInject /\ [][NextSlug]_vars

\* C33: the step that receives an injectAndCreateMonaco request without a
\* problemSlug leaves the tab without a tabSlugs entry, and the step that
\* receives one with a slug leaves the entry at that slug; while the tab has
\* no entry every saveCodeForTab from it is answered { success: false } and
\* writes nothing, and the entry comes back only with a request that carries
\* a slug.
C33_SluglessRequestUnregisters ==
  [][/\ \A t \in Tabs :
          (nreq' = nreq + 1 /\ req'[nreq'].tab = t) =>
            tabSlugs'[t] = req'[nreq'].slug
     /\ (saveMsgs # <<>> /\ saveMsgs' = Tail(saveMsgs) /\ hist'.nsaves = hist.nsaves + 1
           /\ tabSlugs[Head(saveMsgs).tab] = Null) =>
          /\ writes' = writes
          /\ storage' = storage
          /\ hist'.nresp = hist.nresp + 1
          /\ ~hist'.lastSave.ok
          /\ ~hist'.lastSave.wrote
     /\ \A t \in Tabs :
          (tabSlugs[t] = Null /\ tabSlugs'[t] # Null) =>
            /\ nreq' = nreq + 1
            /\ req'[nreq'].tab = t
            /\ Truthy(req'[nreq'].slug)]_vars

\* Saving the empty string and coming back: one tab on the page of a problem
\* that embeds any of the snippet lists, saves of the empty string and of other
\* code sent to the background, a storage backend that works, and reloads of
\* the page once every save has gone through, under every content script.
InitEmpty ==
  \E sn \in SnippetSets :
    InitOn(FreshPage("model", sn, <<"Python3">>, TRUE), [k \in AllKeys |-> Undefined])

NextEmpty ==
  \/ InjectionStepSucceeds
  \/ LoaderStepSave
  \/ BgReceiveSave
  \/ StorageSetDone(TRUE)
  \/ \E t \in Tabs :
       \/ CsTick(t)
       \/ CsStorageGetDone(t, TRUE)
       \/ Settled /\ Quiet /\ \E code \in {"", "x = 2"} : ExtraSaveRequest(t, code)
       \/ Settled /\ Quiet /\ Navigate(t, tabUrl[t], TRUE, TRUE)

SpecEmpty == InitEmpty /\ [][NextEmpty]_vars

\* C34: a saveCodeForTab request with the empty string from a registered tab
\* is written to storage and answered with success, not rejected; and when the
\* last successful save for the problem was the empty string, the next
\* initializeEditor whose storage read succeeds passes the empty string as
\* initialCode, not the page's default snippet.
C34_EmptyStringRoundTrip ==
  /\ (hist.lastSave.n = 1 /\ hist.lastSave.code = "" /\ Truthy(hist.lastSave.slug)) =>
       /\ hist.lastSave.wrote
       /\ hist.lastSave.resp = 1
       /\ hist.lastSave.ok
       /\ hist.lastSave.stored = ""
  /\ (hist.lastInit.n = 1 /\ hist.lastInit.readOk /\ hist.lastInit.saved = "") =>
       hist.lastInit.initialCode = ""

\* The catch block's flag script of src/background.js over every value the two
\* status flags may hold when it runs: the document starts with any pair of
\* them, the content script's request runs over every timing and outcome of
\* the page's scripts, and a second request names a container that is not there.
InitCleanup ==
  /\ \E c \in {"undefined", "pending", "success", "error"},
        y \in {"undefined", "pending", "success", "failed"} :
       InitOn([FreshPage("model", <<>>, Null, TRUE) EXCEPT !.createStatus = c, !.syncSetup = y],
              [k \in AllKeys |-> Undefined])
  /\ impl = "bg"

NextCleanup ==
  \/ \E r \in ReqIds :
       \/ InjectLoader(r)
       \/ PollTabsGet(r)
       \/ PollCheck(r)
       \/ PollErrorProbe(r)
       \/ PollWait(r)
       \/ ConfigureMonaco(r)
       \/ \E createThrows \in BOOLEAN : CreateEditor(r, createThrows)
       \/ ReadCreationStatus(r)
       \/ ReadCreationError(r)
       \/ InjectSyncListener(r)
       \/ CatchWriteFlag(r)
  \/ FirstAttempt /\ LoaderStep
  \/ \E t \in Tabs :
       \/ CsTick(t)
       \/ Settled /\ CsStorageGetDone(t, TRUE)
       \/ BetweenPolls /\ CloseTab(t)
       \/ Settled /\ ExtraInjectRequest(t, Options(TwoSum, <<"no-such-container">>, ""))

SpecCleanup == InitCleanup /\ [][NextCleanup]_vars

\* C35: the step of the catch block that reaches the page (src/background.js)
\* turns monacoCreateStatus from 'pending' into 'error' and monacoSyncSetup
\* from 'pending' into 'failed' and leaves every other value of the two flags
\* as it was, so that neither flag is 'pending' afterwards; when the tab is
\* gone the page is not touched.
C35_CleanupChangesPendingFlagsOnly ==
  [][\A r \in ReqIds :
       LET a == req[r]
           b == req'[r]
           t == a.tab IN
       (impl = "bg" /\ a.pc = "catch" /\ b # a) =>
         /\ tabOpen[t] =>
              /\ page'[t].createStatus =
                   IF page[t].createStatus = "pending" THEN "error" ELSE page[t].createStatus
              /\ page'[t].syncSetup =
                   IF page[t].syncSetup = "pending" THEN "failed" ELSE page[t].syncSetup
              /\ page'[t].createStatus # "pending"
              /\ page'[t].syncSetup # "pending"
         /\ ~tabOpen[t] => page' = page]_vars

\* a request that failed with the tab still there, after whose cleanup
\* monacoCreateStatus is still 'success' and monacoSyncSetup is 'failed'
C35_Witness ==
  \E r \in ReqIds :
    /\ req[r].pc = "done"
    /\ req[r].ek # "none"
    /\ ~req[r].respOk
    /\ tabOpen[req[r].tab]
    /\ Truthy(page[req[r].tab].injectErr)
    /\ page[req[r].tab].createStatus = "success"
    /\ page[req[r].tab].syncSetup = "failed"

====
